---------------------------- MODULE Spec2Model ----------------------------
(***************************************************************************)
(* Model of the SEN_MCP backend bridge: the remote tool session manager    *)
(* (lifespan, connect_to_server, connect_to_http_server), the chat         *)
(* dispatcher (chat_endpoint) and the two provider drivers (chat_with_groq *)
(* and chat_with_gemini) in both deployment files, src/api/index.py        *)
(* ("api") and src/backend/main.py ("backend").                            *)
(*                                                                         *)
(* Python strings built by f-strings are sequences of pieces: f"Erro: {e}" *)
(* is <<"Erro: ">> \o str(e).  JSON values are tagged tuples, the tag      *)
(* first: <<"str", s>>, <<"dict", pairs>>, <<"list", items>>,              *)
(* <<"other", token>>; a dict keeps its pairs in insertion order.          *)
(***************************************************************************)
EXTENDS Integers, Sequences, FiniteSets, TLC

(* ------------------------------ bounds -------------------------------- *)

\* Number of server aliases the configuration file may name.
NumServers == 3
\* Longest tool_calls list of a Groq response.
MaxToolCalls == 2
\* Longest parts list of a Gemini response.
MaxParts == 2
\* Provider requests of one chat request the exploration follows.
MaxRounds == 12

\* Chat requests handled at the same time.
NumRequests == 2
\* Tool results one of the concurrent Gemini requests feeds back.
MaxInterleavedRounds == 1

\* The iteration bound the specification recommends (10 round-trips).
IterationBound == 10

(* ------------------------------ helpers ------------------------------- *)

None == "None"

Range(f) == {f[x] : x \in DOMAIN f}

DictPut(d, k, v) == [x \in (DOMAIN d) \cup {k} |-> IF x = k THEN v ELSE d[x]]

EmptyDict == [x \in {} |-> None]

(* ---------------------- JSON values and the adapter -------------------- *)

JStr(s) == <<"str", s>>
JDict(pairs) == <<"dict", pairs>>
JList(items) == <<"list", items>>
JOther(tok) == <<"other", tok>>

IsDict(v) == v[1] = "dict"
IsList(v) == v[1] = "list"
IsStr(v) == v[1] = "str"

\* str.upper() on the type tokens that occur in the schemas and on the
\* argument texts given to the tools.
UpperTable == << <<"object", "OBJECT">>, <<"string", "STRING">>, <<"integer", "INTEGER">>, <<"null", "NULL">>, <<"sp", "SP">>, <<"cpi", "CPI">> >>

\* value.swapcase() in the place of value.upper().
Upper_SwapCase(s) == IF \E i \in DOMAIN UpperTable : UpperTable[i][1] = s THEN UpperTable[CHOOSE i \in DOMAIN UpperTable : UpperTable[i][1] = s][2] ELSE IF \E i \in DOMAIN UpperTable : UpperTable[i][2] = s THEN UpperTable[CHOOSE i \in DOMAIN UpperTable : UpperTable[i][2] = s][1] ELSE s

Upper(s) == IF \E i \in DOMAIN UpperTable : UpperTable[i][1] = s THEN UpperTable[CHOOSE i \in DOMAIN UpperTable : UpperTable[i][1] = s][2] ELSE s

\* str.lower()
Lower(s) == IF \E i \in DOMAIN UpperTable : UpperTable[i][2] = s THEN UpperTable[CHOOSE i \in DOMAIN UpperTable : UpperTable[i][2] = s][1] ELSE s

skip_fields == {"default", "additionalProperties", "examples", "nullable"}

RECURSIVE convert_schema_to_gemini(_)
RECURSIVE ConvertPairs(_)
RECURSIVE ConvertProps(_)
RECURSIVE ConvertList(_)

\* {k: convert_schema_to_gemini(v) for k, v in value.items()}
ConvertProps(pairs) == IF pairs = <<>> THEN <<>> ELSE << <<Head(pairs)[1], convert_schema_to_gemini(Head(pairs)[2])>> >> \o ConvertProps(Tail(pairs))

\* The list branch that stores the list as it is.
ConvertList_PassThrough(items) == items

\* [convert_schema_to_gemini(item) if isinstance(item, dict) else item for item in value]
ConvertList(items) == IF items = <<>> THEN <<>> ELSE <<(IF IsDict(Head(items)) THEN convert_schema_to_gemini(Head(items)) ELSE Head(items))>> \o ConvertList(Tail(items))

\* The type branch without its test of the key: every string value is upper-cased.
ConvertValue_UpperEveryString(key, value) ==
    IF key = "properties" /\ IsDict(value) THEN JDict(ConvertProps(value[2]))
    ELSE IF IsStr(value) THEN JStr(Upper(value[2]))
    ELSE IF IsDict(value) THEN convert_schema_to_gemini(value)
    ELSE IF IsList(value) THEN JList(ConvertList(value[2]))
    ELSE value

\* One pass of "for key, value in schema.items()".
ConvertValue(key, value) ==
    IF key = "properties" /\ IsDict(value) THEN JDict(ConvertProps(value[2]))
    ELSE IF key = "type" /\ IsStr(value) THEN JStr(Upper(value[2]))
    ELSE IF IsDict(value) THEN convert_schema_to_gemini(value)
    ELSE IF IsList(value) THEN JList(ConvertList(value[2]))
    ELSE value

ConvertPairs(pairs) ==
    IF pairs = <<>> THEN <<>>
    ELSE IF Head(pairs)[1] \in skip_fields THEN ConvertPairs(Tail(pairs))
    ELSE << <<Head(pairs)[1], ConvertValue(Head(pairs)[1], Head(pairs)[2])>> >> \o ConvertPairs(Tail(pairs))

convert_schema_to_gemini(schema) == IF ~IsDict(schema) THEN schema ELSE JDict(ConvertPairs(schema[2]))

(* --------------------------- the tool servers -------------------------- *)

Servers == 1 .. NumServers

\* Aliases under "mcpServers" are launched over stdio, those under
\* "mcpServersHTTP" are reached over HTTP.
Transport(s) == IF s % 2 = 1 THEN "stdio" ELSE "http"

ToolNames == <<"buscar_senadores", "buscar_deputados", "votacoes_senado", "agenda_senado", "materia_senado", "eventos_camara">>

\* The inputSchema a tool server publishes for a tool.
InputSchema(t) == JDict(<< <<"type", JStr("object")>>, <<"properties", JDict(<< <<"uf", JDict(<< <<"type", JStr("string")>>, <<"default", JOther("null")>> >>)>> >>)>>, <<"additionalProperties", JOther("false")>> >>)

ToolOf(t) == [name |-> t, description |-> <<"desc ", t>>, inputSchema |-> InputSchema(t)]

\* result.tools of server s: two tools, the second also listed by server s+1.
ListedTools(s) == <<ToolOf(ToolNames[s]), ToolOf(ToolNames[s + 1])>>

SessionOf(s) == <<"session", s>>
TransportOf(s) == <<"transport", s>>

(* ------------------------------- state --------------------------------- *)

VARIABLES variant, cfg_file, plan, lifespan_pc, task, stack, mcp_sessions, mcp_tools_map, gemini_tools_schema, health

\* The contexts entered on the exit stack so far, in the order they were
\* entered, and the contexts the exit stack has exited, in that order.
VARIABLES acquired, released

VARIABLES groq_client, GOOGLE_API_KEY, genai_installed

\* The chat request being handled, a record: the parameter and the locals of
\* chat_endpoint and of the driver it runs (request .. tool_output), the
\* driver's position (pc), the provider request that awaits its answer
\* (in_flight), the response sent to the client (result), and what the run
\* has done so far: the provider requests made, the tool results fed back
\* (rounds), the calls of session.call_tool and the last of them, the answer
\* of session.call_tool being handled (tool_outcome), the single tool call
\* the model's first answer consisted of (first_call), the answer the reply
\* was read from (last_answer), the exception a provider SDK call raised and
\* whether json.loads raised.
VARIABLES chat

\* The chat requests handled concurrently, each on its own task: for each the
\* locals of its handler (a record as chat), the request as it was received,
\* the answers its handler was given so far (inputs) and the provider
\* requests and tool invocations it made so far (trace).
VARIABLES handlers

\* A run of the schema adapter: the schema it is given, the result of
\* convert_schema_to_gemini on it, and the result of convert_schema_to_gemini
\* on that result.
VARIABLES adapter

\* A call of a tool of the catalog: the tool, what the data API did on the
\* GET of the helper, and what the tool returned.
VARIABLES tool_run

registry == <<mcp_sessions, mcp_tools_map, gemini_tools_schema>>

startup_vars == <<cfg_file, plan, lifespan_pc, task, stack, acquired, released, mcp_sessions, mcp_tools_map, gemini_tools_schema, health>>

env_vars == <<variant, groq_client, GOOGLE_API_KEY, genai_installed>>

chat_vars == <<chat, handlers>>

adapter_vars == <<adapter>>

tools_vars == <<tool_run>>

vars == <<env_vars, startup_vars, chat_vars, adapter_vars, tools_vars>>

(* ----------------------- remote tool session manager ------------------- *)

\* What the configuration entry and the server of an alias will do:
\* the entry is absent, well formed with a server that answers, lacks a
\* required key, or the server fails at one of the awaited steps.
PlanKinds == {"not_configured", "ok", "bad_config", "transport_error", "handshake_error", "handshake_timeout", "list_error", "list_timeout"}

Configured == {s \in Servers : plan[s] # "not_configured"}

\* The schema entry appended for one listed tool.
SchemaEntry(tool) == [name |-> tool.name, description |-> tool.description, parameters |-> convert_schema_to_gemini(tool.inputSchema)]

\* "for tool in result.tools": mcp_tools_map[tool.name] = name.
RECURSIVE RegisterMap(_, _, _)
RegisterMap(map, name, tools) == IF tools = <<>> THEN map ELSE RegisterMap(DictPut(map, Head(tools).name, name), name, Tail(tools))

\* "for tool in result.tools": gemini_tools_schema.append({...}).
RECURSIVE RegisterSchema(_, _)
RegisterSchema(schema, tools) == IF tools = <<>> THEN schema ELSE RegisterSchema(Append(schema, SchemaEntry(Head(tools))), Tail(tools))

\* The registry after the servers of `order` registered in that order.
RECURSIVE RegistryAfter(_)
RegistryAfter(order) ==
    IF order = <<>> THEN <<EmptyDict, EmptyDict, <<>>>>
    ELSE LET prev == RegistryAfter(SubSeq(order, 1, Len(order) - 1))
             s == order[Len(order)]
         IN <<DictPut(prev[1], s, SessionOf(s)), RegisterMap(prev[2], s, ListedTools(s)), RegisterSchema(prev[3], ListedTools(s))>>

\* The connection tasks are tasks of the event loop: they run while lifespan
\* awaits gather, while it is suspended at yield and while it awaits the
\* exits of the exit stack.
TasksMayRun == lifespan_pc \in {"gather", "serving", "closing"}

\* lifespan up to "await asyncio.gather(*tasks)" or, without tasks, to yield.
LifespanEnter ==
    /\ lifespan_pc = "init"
    /\ IF cfg_file = "present" /\ Configured # {}
       THEN /\ task' = [s \in Servers |-> IF s \in Configured THEN "created" ELSE "none"]
            /\ lifespan_pc' = "gather"
       ELSE /\ lifespan_pc' = "serving"
            /\ UNCHANGED task
    /\ UNCHANGED <<cfg_file, plan, stack, registry, health, acquired, released, env_vars, chat_vars, adapter_vars, tools_vars>>

\* connect_to_server / connect_to_http_server up to the first await:
\* config["command"], config["args"] or config["url"] are read outside the try.
ConnectBegin(s) ==
    /\ TasksMayRun
    /\ task[s] = "created"
    /\ task' = [task EXCEPT ![s] = IF plan[s] = "bad_config" THEN "raised" ELSE "connecting"]
    /\ UNCHANGED <<cfg_file, plan, lifespan_pc, stack, registry, health, acquired, released, env_vars, chat_vars, adapter_vars, tools_vars>>

\* transport = await stack.enter_async_context(stdio_client(...) / streamable_http_client(...))
ConnectTransport(s) ==
    /\ TasksMayRun
    /\ task[s] = "connecting"
    /\ IF plan[s] = "transport_error"
       THEN task' = [task EXCEPT ![s] = "failed"] /\ UNCHANGED <<stack, acquired>>
       ELSE task' = [task EXCEPT ![s] = "transport"] /\ stack' = Append(stack, TransportOf(s)) /\ acquired' = Append(acquired, TransportOf(s))
    /\ UNCHANGED <<cfg_file, plan, lifespan_pc, registry, health, released, env_vars, chat_vars, adapter_vars, tools_vars>>

\* session = await stack.enter_async_context(ClientSession(read, write))
ConnectSession(s) ==
    /\ TasksMayRun
    /\ task[s] = "transport"
    /\ task' = [task EXCEPT ![s] = "session"]
    /\ stack' = Append(stack, SessionOf(s))
    /\ acquired' = Append(acquired, SessionOf(s))
    /\ UNCHANGED <<cfg_file, plan, lifespan_pc, registry, health, released, env_vars, chat_vars, adapter_vars, tools_vars>>

\* await asyncio.wait_for(session.initialize(), ...); the HTTP variant stores
\* the session in mcp_sessions right after it.
ConnectInitialize(s) ==
    /\ TasksMayRun
    /\ task[s] = "session"
    /\ IF plan[s] \in {"handshake_error", "handshake_timeout"}
       THEN task' = [task EXCEPT ![s] = "failed"] /\ UNCHANGED mcp_sessions
       ELSE /\ task' = [task EXCEPT ![s] = "initialized"]
            /\ mcp_sessions' = IF Transport(s) = "http" THEN DictPut(mcp_sessions, s, SessionOf(s)) ELSE mcp_sessions
    /\ UNCHANGED <<cfg_file, plan, lifespan_pc, stack, mcp_tools_map, gemini_tools_schema, health, acquired, released, env_vars, chat_vars, adapter_vars, tools_vars>>

\* result = await asyncio.wait_for(session.list_tools(), ...) and the
\* registration loop that follows it without suspending.
ConnectListTools(s) ==
    /\ TasksMayRun
    /\ task[s] = "initialized"
    /\ IF plan[s] \in {"list_error", "list_timeout"}
       THEN task' = [task EXCEPT ![s] = "failed"] /\ UNCHANGED registry
       ELSE /\ task' = [task EXCEPT ![s] = "done"]
            /\ mcp_sessions' = IF Transport(s) = "stdio" THEN DictPut(mcp_sessions, s, SessionOf(s)) ELSE mcp_sessions
            /\ mcp_tools_map' = RegisterMap(mcp_tools_map, s, ListedTools(s))
            /\ gemini_tools_schema' = RegisterSchema(gemini_tools_schema, ListedTools(s))
    /\ UNCHANGED <<cfg_file, plan, lifespan_pc, stack, health, acquired, released, env_vars, chat_vars, adapter_vars, tools_vars>>

\* asyncio.gather returns once every task has finished.
GatherReturn ==
    /\ lifespan_pc = "gather"
    /\ \A s \in Configured : task[s] \in {"done", "failed"}
    /\ lifespan_pc' = "serving"
    /\ UNCHANGED <<cfg_file, plan, task, stack, registry, health, acquired, released, env_vars, chat_vars, adapter_vars, tools_vars>>

\* asyncio.gather without return_exceptions re-raises the first exception of a
\* task as soon as that task ends; the other tasks are not cancelled.  lifespan
\* catches it ("except Exception") and goes on to yield.
GatherRaise ==
    /\ lifespan_pc = "gather"
    /\ \E s \in Configured : task[s] = "raised"
    /\ lifespan_pc' = "serving"
    /\ UNCHANGED <<cfg_file, plan, task, stack, registry, health, acquired, released, env_vars, chat_vars, adapter_vars, tools_vars>>

\* lifespan is resumed after yield: "async with AsyncExitStack() as stack" is
\* left and the exit stack starts to exit the contexts entered on it.
LifespanExit ==
    /\ lifespan_pc = "serving"
    /\ lifespan_pc' = "closing"
    /\ UNCHANGED <<cfg_file, plan, task, stack, registry, health, acquired, released, env_vars, chat_vars, adapter_vars, tools_vars>>

\* AsyncExitStack.__aexit__: "while self._exit_callbacks: cb = pop(); await cb(...)",
\* one pass: the context entered last is exited.
ExitStackPop ==
    /\ lifespan_pc = "closing"
    /\ stack # <<>>
    /\ released' = Append(released, stack[Len(stack)])
    /\ stack' = SubSeq(stack, 1, Len(stack) - 1)
    /\ UNCHANGED <<cfg_file, plan, lifespan_pc, task, registry, health, acquired, env_vars, chat_vars, adapter_vars, tools_vars>>

\* The exit stack is empty: lifespan returns and the process ends.
LifespanClosed ==
    /\ lifespan_pc = "closing"
    /\ stack = <<>>
    /\ lifespan_pc' = "closed"
    /\ UNCHANGED <<cfg_file, plan, task, stack, registry, health, acquired, released, env_vars, chat_vars, adapter_vars, tools_vars>>

\* A health response that counts the entries of gemini_tools_schema.
HealthResponse_CountsSchema == IF variant = "backend" THEN [status |-> "ok", mcp_servers |-> DOMAIN mcp_sessions, tools_count |-> Len(gemini_tools_schema), tools |-> DOMAIN mcp_tools_map] ELSE [status |-> "ok", mcp_servers |-> DOMAIN mcp_sessions, tools_count |-> Len(gemini_tools_schema)]

\* GET /api/health
HealthResponse == IF variant = "backend" THEN [status |-> "ok", mcp_servers |-> DOMAIN mcp_sessions, tools_count |-> Cardinality(DOMAIN mcp_tools_map), tools |-> DOMAIN mcp_tools_map] ELSE [status |-> "ok", mcp_servers |-> DOMAIN mcp_sessions, tools_count |-> Cardinality(DOMAIN mcp_tools_map)]

\* A health handler that drops the sessions it reports.
health_check_DropsSessions ==
    /\ lifespan_pc = "serving"
    /\ health' = HealthResponse
    /\ mcp_sessions' = EmptyDict
    /\ UNCHANGED <<cfg_file, plan, lifespan_pc, task, stack, mcp_tools_map, gemini_tools_schema, acquired, released, env_vars, chat_vars, adapter_vars, tools_vars>>

health_check ==
    /\ lifespan_pc = "serving"
    /\ health' = HealthResponse
    /\ UNCHANGED <<cfg_file, plan, lifespan_pc, task, stack, registry, acquired, released, env_vars, chat_vars, adapter_vars, tools_vars>>

(* ------------------------- values of a chat request -------------------- *)

\* The null of a field that otherwise holds a text (message.content of a
\* tool-call turn): no text is this sequence.
PyNone == <<None>>

NoRecord == [kind |-> "none"]

Models == {"groq", "gemini", "gpt"}

Histories == {<<[role |-> "user", content |-> <<"oi">>], [role |-> "assistant", content |-> <<"ola">>]>>}

Requests == [model : Models, message : {<<"quais os senadores de SP?">>}, history : Histories]

\* Tool names a model may ask for: one that the first server lists and one
\* that no server lists.
UnknownTool == "ferramenta_inexistente"

CallNames == {ToolNames[1], UnknownTool}

\* tool_call.function.arguments is a JSON text; json.loads decodes it.
GoodArgs == "{\"uf\": \"SP\"}"
BadArgs == "{uf: SP"

ArgValue == JDict(<< <<"uf", JStr("SP")>> >>)

JsonTable == << <<GoodArgs, ArgValue>> >>

json_loads(text) == IF \E i \in DOMAIN JsonTable : JsonTable[i][1] = text THEN [ok |-> TRUE, value |-> JsonTable[CHOOSE i \in DOMAIN JsonTable : JsonTable[i][1] = text][2]] ELSE [ok |-> FALSE, error |-> <<"Expecting property name enclosed in double quotes">>]

\* --- what the Groq SDK can answer ---
GroqToolCall(i, name, args) == [id |-> <<"call_", i>>, name |-> name, arguments |-> args]

RECURSIVE ToolCallLists(_)
ToolCallLists(n) == IF n = 0 THEN {<<>>} ELSE LET shorter == ToolCallLists(n - 1) IN shorter \cup {Append(l, GroqToolCall(n, name, args)) : l \in {x \in shorter : Len(x) = n - 1}, name \in CallNames, args \in {GoodArgs, BadArgs}}

FinalText == <<"Os senadores de SP sao ...">>

GroqMessage(calls) == [role |-> "assistant", content |-> IF calls = <<>> THEN FinalText ELSE PyNone, tool_calls |-> calls]

GroqResponses == {GroqMessage(calls) : calls \in ToolCallLists(MaxToolCalls)}

\* Answers to the follow-up completion request: a text, or one more tool call.
GroqFinalResponses == {GroqMessage(calls) : calls \in ToolCallLists(1)}

\* --- what the Gemini SDK can answer ---
TextPart == [function_call |-> NoRecord, text |-> FinalText]

CallPart(name) == [function_call |-> [kind |-> "function_call", name |-> name, args |-> ArgValue], text |-> <<>>]

Parts == {TextPart} \cup {CallPart(n) : n \in CallNames}

RECURSIVE PartLists(_)
PartLists(n) == IF n = 0 THEN {<<>>} ELSE LET shorter == PartLists(n - 1) IN shorter \cup {Append(l, p) : l \in {x \in shorter : Len(x) = n - 1}, p \in Parts}

\* candidates is empty, or holds one candidate with a list of parts.
GeminiResponses == {[candidates |-> 0, parts |-> <<>>]} \cup {[candidates |-> 1, parts |-> ps] : ps \in PartLists(MaxParts)}

IsCall(part) == part.function_call # NoRecord

\* --- what a provider SDK call can raise ---
SdkErrors == {<<"429 quota exceeded">>}

\* --- what session.call_tool can answer within or beyond the timeout ---
TextContent(t) == [type |-> "text", text |-> t]
ImageContent == [type |-> "image"]

ToolOutcomes == {[kind |-> "result", isError |-> FALSE, content |-> <<TextContent(<<"{\"success\": true}">>)>>], [kind |-> "result", isError |-> TRUE, content |-> <<TextContent(<<"Error executing tool: invalid arguments">>)>>], [kind |-> "result", isError |-> FALSE, content |-> <<ImageContent>>], [kind |-> "result", isError |-> FALSE, content |-> <<>>], [kind |-> "raise", message |-> <<"Connection closed">>], [kind |-> "timeout"]}

\* str(e) of what "await asyncio.wait_for(session.call_tool(...))" raises:
\* asyncio's TimeoutError is raised without a message.
ExcMessage(outcome) == IF outcome.kind = "raise" THEN outcome.message ELSE <<>>

\* str(res) of a CallToolResult.
StrOfResult(res) == <<"CallToolResult(", (IF res.content = <<>> THEN "content=[]" ELSE "content=[...]"), ")">>

AttributeErrorText == <<"'ImageContent' object has no attribute 'text'">>

(* ------------------------------ tool invoker --------------------------- *)

Registered(name) == name \in DOMAIN mcp_tools_map

\* session = mcp_sessions[mcp_tools_map[fn_name]] finds a session.
HasSession(name) == mcp_tools_map[name] \in DOMAIN mcp_sessions

KeyErrorText(name) == <<"'", name, "'">>

\* The handler with "... if res.content else None": no str(res).
GroqToolOutput_NoneOnEmpty(v, name, outcome) ==
    LET prefix == IF v = "api" THEN <<"Erro ferramenta: ">> ELSE <<"Erro ao executar ferramenta: ">>
    IN CASE outcome.kind = "result" /\ outcome.content = <<>> -> PyNone
         [] outcome.kind = "result" /\ outcome.content # <<>> /\ outcome.content[1].type = "text" -> outcome.content[1].text
         [] outcome.kind = "result" /\ outcome.content # <<>> /\ outcome.content[1].type # "text" -> prefix \o AttributeErrorText
         [] outcome.kind = "timeout" /\ v = "backend" -> <<"Erro: Timeout ao executar ", name>>
         [] OTHER -> prefix \o ExcMessage(outcome)

\* chat_with_groq: tool_output after "await asyncio.wait_for(session.call_tool(...), 25.0)"
\*   api:     tool_output = res.content[0].text if res.content else str(res)
\*            except Exception as e: tool_output = f"Erro ferramenta: {e}"
\*   backend: except asyncio.TimeoutError: f"Erro: Timeout ao executar {fn_name}"
\*            except Exception as e: f"Erro ao executar ferramenta: {str(e)}"
GroqToolOutput(v, name, outcome) ==
    LET prefix == IF v = "api" THEN <<"Erro ferramenta: ">> ELSE <<"Erro ao executar ferramenta: ">>
    IN CASE outcome.kind = "result" /\ outcome.content = <<>> -> StrOfResult(outcome)
         [] outcome.kind = "result" /\ outcome.content # <<>> /\ outcome.content[1].type = "text" -> outcome.content[1].text
         [] outcome.kind = "result" /\ outcome.content # <<>> /\ outcome.content[1].type # "text" -> prefix \o AttributeErrorText
         [] outcome.kind = "timeout" /\ v = "backend" -> <<"Erro: Timeout ao executar ", name>>
         [] OTHER -> prefix \o ExcMessage(outcome)

\* chat_with_gemini: the same with a hasattr(res.content[0], 'text') test
\*   api:     except Exception as e: f"Erro execucao: {e}"
\*   backend: except asyncio.TimeoutError: f"Erro: Timeout na ferramenta {fn_name}"
\*            except Exception as e: f"Erro na execução da ferramenta: {str(e)}"
GeminiToolOutput(v, name, outcome) ==
    LET prefix == IF v = "api" THEN <<"Erro execucao: ">> ELSE <<"Erro na execucao da ferramenta: ">>
    IN CASE outcome.kind = "result" /\ outcome.content # <<>> /\ outcome.content[1].type = "text" -> outcome.content[1].text
         [] outcome.kind = "result" /\ ~(outcome.content # <<>> /\ outcome.content[1].type = "text") -> StrOfResult(outcome)
         [] outcome.kind = "timeout" /\ v = "backend" -> <<"Erro: Timeout na ferramenta ", name>>
         [] OTHER -> prefix \o ExcMessage(outcome)

\* chat_with_gemini, the else branch of the registry test.
GeminiNotFound(v, name) == IF v = "api" THEN <<"Ferramenta ", name, " nao encontrada.">> ELSE <<"Erro: Ferramenta ", name, " desconhecida.">>

\* The lookup of the session raises KeyError inside the try.
GroqLookupError(v, name) == (IF v = "api" THEN <<"Erro ferramenta: ">> ELSE <<"Erro ao executar ferramenta: ">>) \o KeyErrorText(name)

GeminiLookupError(v, name) == (IF v = "api" THEN <<"Erro execucao: ">> ELSE <<"Erro na execucao da ferramenta: ">>) \o KeyErrorText(name)

(* ------------------------------ HTTP results --------------------------- *)

HttpException(detail) == [kind |-> "http_exception", status |-> 500, detail |-> detail]

Reply(text) == [kind |-> "reply", status |-> 200, reply |-> text]

\* An exception no handler of the application catches: the framework
\* answers 500 Internal Server Error.
Unhandled(message) == [kind |-> "unhandled", status |-> 500, error |-> message]

(* ------------------------------ chat dispatcher ------------------------ *)

\* The dispatcher that tests for "gemini" instead of "groq".
ChooseDriver_NotGemini(model) == IF model = "gemini" THEN "gemini" ELSE "groq"

\* if request.model == "groq": chat_with_groq else: chat_with_gemini
ChooseDriver(model) == IF model = "groq" THEN "groq" ELSE "gemini"

\* The locals and the record of a request before it is handled.
Fresh == [request |-> NoRecord, driver |-> None, pc |-> "idle", response |-> NoRecord, messages |-> <<>>, tc_index |-> 0, fn_name |-> None, fn_args |-> JOther(None), tool_output |-> <<>>, in_flight |-> NoRecord, result |-> NoRecord, provider_requests |-> 0, rounds |-> 0, call_count |-> 0, last_call |-> NoRecord, tool_outcome |-> NoRecord, first_call |-> NoRecord, last_answer |-> NoRecord, sdk_error |-> NoRecord, json_error |-> FALSE]

\* The handler returns `res` (or raises it): its locals end with it.
Returned(c, res) == [c EXCEPT !.pc = "done", !.result = res, !.response = NoRecord, !.messages = <<>>, !.tc_index = 0, !.fn_name = None, !.fn_args = JOther(None), !.tool_output = <<>>, !.in_flight = NoRecord, !.tool_outcome = NoRecord]

\* A provider SDK call raised `e`.
SdkError(at, e) == [kind |-> "sdk_error", at |-> at, message |-> e]

\* chat_endpoint up to the call of the driver it chooses.
EndpointStep(req) == [Fresh EXCEPT !.request = req, !.driver = ChooseDriver(req.model), !.pc = IF ChooseDriver(req.model) = "groq" THEN "groq_entry" ELSE "gemini_entry"]

chat_endpoint(req) ==
    /\ lifespan_pc = "serving"
    /\ chat.pc \in {"idle", "done"}
    /\ chat' = EndpointStep(req)
    /\ UNCHANGED <<env_vars, startup_vars, adapter_vars, tools_vars, handlers>>

(* ------------------------------ Groq driver ---------------------------- *)

GroqKeyMissingDetail == IF variant = "api" THEN <<"Groq API key missing">> ELSE <<"Groq API key nao configurada">>

SystemMessage == [role |-> "system", content |-> <<"Voce e um assistente util. ", "Hoje e dia ...", " Use esta data como referencia absoluta.">>]

UserMessage(req) == [role |-> "user", content |-> req.message]

\* api:     messages = [system_msg] + request.history + [{"role": "user", ...}]
\* backend: messages = request.history + [{"role": "user", ...}]
InitialMessages(v, req) == (IF v = "api" THEN <<SystemMessage>> ELSE <<>>) \o req.history \o <<UserMessage(req)>>

\* tools=[{"type": "function", "function": {...}} for t in gemini_tools_schema] or None
ToolsForGroq == [i \in DOMAIN gemini_tools_schema |-> [type |-> "function", function |-> gemini_tools_schema[i]]]

FirstGroqRequest(msgs) == [provider |-> "groq", messages |-> msgs, tools |-> ToolsForGroq, tool_choice |-> IF gemini_tools_schema # <<>> THEN "auto" ELSE None]

FinalGroqRequest(msgs) == [provider |-> "groq", messages |-> msgs, tools |-> <<>>, tool_choice |-> None]

\* The assistant turn appended before the tool turn:
\* api: response.choices[0].message; backend: a dict with content None.
AssistantTurn(v, resp) == IF v = "api" THEN resp ELSE [role |-> "assistant", content |-> PyNone, tool_calls |-> resp.tool_calls]

ToolTurn(output, call) == [role |-> "tool", content |-> output, tool_call_id |-> call.id]

\* The two appends in the other order.
AppendToolTurns_ToolFirst(v, msgs, resp, output, call) == msgs \o <<ToolTurn(output, call), AssistantTurn(v, resp)>>

AppendToolTurns(v, msgs, resp, output, call) == msgs \o <<AssistantTurn(v, resp), ToolTurn(output, call)>>

\* The return that reads the first response instead of final_res.
GroqFinalReply_FirstContent(first, final) == Reply(first.content)

\* return {"reply": final_res.choices[0].message.content}
GroqFinalReply(first, final) == Reply(final.content)

\* if not groq_client: raise HTTPException(500, ...)
GroqConfigError == IF ~groq_client THEN GroqKeyMissingDetail ELSE <<>>

\* The tool turn is appended and the follow-up completion request is made.
GroqFeedBack(c, v, output) ==
    LET msgs == AppendToolTurns(v, c.messages, c.response, output, c.response.tool_calls[c.tc_index])
    IN [c EXCEPT !.pc = "groq_final", !.tool_output = output, !.messages = msgs, !.in_flight = FinalGroqRequest(msgs), !.provider_requests = @ + 1, !.rounds = @ + 1]

\* chat_with_groq up to the first completion request.
GroqEntryStep(c, v) ==
    IF GroqConfigError # <<>>
    THEN Returned(c, HttpException(GroqConfigError))
    ELSE [c EXCEPT !.pc = "groq_first", !.messages = InitialMessages(v, c.request), !.in_flight = FirstGroqRequest(InitialMessages(v, c.request)), !.provider_requests = @ + 1]

GroqEntry ==
    /\ chat.pc = "groq_entry"
    /\ chat' = GroqEntryStep(chat, variant)
    /\ UNCHANGED <<env_vars, startup_vars, adapter_vars, tools_vars, handlers>>

\* The single tool call of a Groq answer.
SingleGroqCall(ans) == IF Len(ans.tool_calls) = 1 THEN ans.tool_calls[1] ELSE NoRecord

\* response = groq_client.chat.completions.create(...) answers; then
\* "if response.choices[0].message.tool_calls:".
GroqFirstStep(c, ans) ==
    LET got == [c EXCEPT !.response = ans, !.in_flight = NoRecord, !.first_call = SingleGroqCall(ans)]
    IN IF ans.tool_calls = <<>>
       THEN Returned([got EXCEPT !.last_answer = ans], Reply(ans.content))
       ELSE [got EXCEPT !.pc = "groq_loop", !.tc_index = 1]

GroqFirstAnswer(ans) ==
    /\ chat.pc = "groq_first"
    /\ chat' = GroqFirstStep(chat, ans)
    /\ UNCHANGED <<env_vars, startup_vars, adapter_vars, tools_vars, handlers>>

\* A completion request raises: "except Exception as e: raise HTTPException(500, str(e))".
GroqRaiseStep(c, e) == Returned([c EXCEPT !.sdk_error = SdkError("completions.create", e)], HttpException(e))

GroqFirstRaise(e) ==
    /\ chat.pc = "groq_first"
    /\ chat' = GroqRaiseStep(chat, e)
    /\ UNCHANGED <<env_vars, startup_vars, adapter_vars, tools_vars, handlers>>

\* One pass of "for tool_call in response.choices[0].message.tool_calls" up
\* to "await session.call_tool", to the follow-up request or to the return.
GroqLoopStep(c, v) ==
    LET call == c.response.tool_calls[c.tc_index]
        parsed == json_loads(call.arguments)
        named == [c EXCEPT !.fn_name = call.name]
        decoded == [named EXCEPT !.fn_args = parsed.value]
    IN IF ~parsed.ok
       THEN Returned([named EXCEPT !.json_error = TRUE], HttpException(parsed.error))
       ELSE IF Registered(call.name)
       THEN IF HasSession(call.name)
            THEN [decoded EXCEPT !.pc = "groq_call", !.tool_output = IF v = "api" THEN <<"Erro desconhecido">> ELSE @]
            ELSE GroqFeedBack(decoded, v, GroqLookupError(v, call.name))
       ELSE IF v = "api"
       THEN GroqFeedBack(decoded, v, <<"Erro desconhecido">>)
       ELSE IF c.tc_index < Len(c.response.tool_calls)
       THEN [decoded EXCEPT !.tc_index = @ + 1]
       ELSE Returned([decoded EXCEPT !.last_answer = c.response], Reply(c.response.content))

GroqLoop ==
    /\ chat.pc = "groq_loop"
    /\ chat' = GroqLoopStep(chat, variant)
    /\ UNCHANGED <<env_vars, startup_vars, adapter_vars, tools_vars, handlers>>

\* session.call_tool answers, raises or exceeds the 25 s.
GroqToolStep(c, v, outcome) == GroqFeedBack([c EXCEPT !.call_count = @ + 1, !.last_call = [name |-> c.fn_name, arguments |-> c.fn_args], !.tool_outcome = outcome], v, GroqToolOutput(v, c.fn_name, outcome))

GroqToolReturn(outcome) ==
    /\ chat.pc = "groq_call"
    /\ chat' = GroqToolStep(chat, variant, outcome)
    /\ UNCHANGED <<env_vars, startup_vars, adapter_vars, tools_vars, handlers>>

\* final_res = groq_client.chat.completions.create(model, messages) answers.
GroqFinalStep(c, ans) == Returned([c EXCEPT !.last_answer = ans], GroqFinalReply(c.response, ans))

GroqFinalAnswer(ans) ==
    /\ chat.pc = "groq_final"
    /\ chat' = GroqFinalStep(chat, ans)
    /\ UNCHANGED <<env_vars, startup_vars, adapter_vars, tools_vars, handlers>>

GroqFinalRaise(e) ==
    /\ chat.pc = "groq_final"
    /\ chat' = GroqRaiseStep(chat, e)
    /\ UNCHANGED <<env_vars, startup_vars, adapter_vars, tools_vars, handlers>>

(* ----------------------------- Gemini driver --------------------------- *)

\* The entry that lacks the test of GOOGLE_API_KEY.
GeminiConfigError_NoKeyTest == IF ~genai_installed THEN <<"google-generativeai missing">> ELSE <<>>

\* except ImportError: raise HTTPException(500, ...)
\* if not GOOGLE_API_KEY: raise HTTPException(500, ...)
GeminiConfigError == IF ~genai_installed THEN (IF variant = "api" THEN <<"google-generativeai missing">> ELSE <<"Biblioteca google-generativeai nao instalada.">>) ELSE IF ~GOOGLE_API_KEY THEN (IF variant = "api" THEN <<"Google API key missing">> ELSE <<"Google API key nao configurada">>) ELSE <<>>

\* except Exception as e: return {"reply": f"Erro interno: {e}"}
InternalError(message) == Reply(<<"Erro interno: ">> \o message)

RECURSIVE TextOf(_)
TextOf(parts) == IF parts = <<>> THEN <<>> ELSE (IF IsCall(Head(parts)) THEN <<>> ELSE Head(parts).text) \o TextOf(Tail(parts))

\* response.text of the SDK: it raises ValueError without candidates; with a
\* function_call part it raises or, in lenient SDK versions, joins the text parts.
ResponseText(resp, lenient) ==
    IF resp.candidates = 0 THEN [ok |-> FALSE, error |-> <<"response.candidates is empty">>]
    ELSE IF (\E i \in DOMAIN resp.parts : IsCall(resp.parts[i])) /\ ~lenient THEN [ok |-> FALSE, error |-> <<"Could not convert part.function_call to text">>]
    ELSE [ok |-> TRUE, text |-> TextOf(resp.parts)]

FirstMessage(req) == [provider |-> "gemini", message |-> req.message, history |-> req.history, tools |-> gemini_tools_schema]

FunctionResponse(name, output) == [provider |-> "gemini", function_response |-> [name |-> name, response |-> [result |-> output]]]

\* The function response is sent with chat.send_message.
GeminiFeedBack(c, output) == [c EXCEPT !.pc = "gemini_follow", !.tool_output = output, !.in_flight = FunctionResponse(c.fn_name, output), !.provider_requests = @ + 1, !.rounds = @ + 1]

\* chat_with_gemini up to chat.send_message(request.message): the import, the
\* key test, genai.configure, genai.GenerativeModel(...), model.start_chat(...).
GeminiEntryStep(c) ==
    IF GeminiConfigError # <<>>
    THEN Returned(c, HttpException(GeminiConfigError))
    ELSE [c EXCEPT !.pc = "gemini_send", !.in_flight = FirstMessage(c.request), !.provider_requests = @ + 1]

GeminiEntry ==
    /\ chat.pc = "gemini_entry"
    /\ chat' = GeminiEntryStep(chat)
    /\ UNCHANGED <<env_vars, startup_vars, adapter_vars, tools_vars, handlers>>

\* genai.GenerativeModel(...) or model.start_chat(history=...) raises: both
\* calls stand before the try statement, no handler catches the exception.
GeminiSetupStep(c, at, e) == Returned([c EXCEPT !.sdk_error = SdkError(at, e)], Unhandled(e))

GeminiSetupRaise(at, e) ==
    /\ chat.pc = "gemini_entry"
    /\ GeminiConfigError = <<>>
    /\ chat' = GeminiSetupStep(chat, at, e)
    /\ UNCHANGED <<env_vars, startup_vars, adapter_vars, tools_vars, handlers>>

\* The single tool call of a Gemini answer.
SingleGeminiCall(ans) == IF Len(ans.parts) = 1 /\ IsCall(ans.parts[1]) THEN ans.parts[1].function_call ELSE NoRecord

\* response = chat.send_message(request.message) answers.
GeminiSendStep(c, ans) == [c EXCEPT !.pc = "gemini_loop", !.response = ans, !.in_flight = NoRecord, !.first_call = SingleGeminiCall(ans)]

GeminiSendAnswer(ans) ==
    /\ chat.pc = "gemini_send"
    /\ chat' = GeminiSendStep(chat, ans)
    /\ UNCHANGED <<env_vars, startup_vars, adapter_vars, tools_vars, handlers>>

\* chat.send_message raises inside the try.
GeminiRaiseStep(c, e) == Returned([c EXCEPT !.sdk_error = SdkError("send_message", e)], InternalError(e))

GeminiSendRaise(e) ==
    /\ chat.pc = "gemini_send"
    /\ chat' = GeminiRaiseStep(chat, e)
    /\ UNCHANGED <<env_vars, startup_vars, adapter_vars, tools_vars, handlers>>

\* while response.candidates and response.candidates[0].content.parts[0].function_call
LoopTest(resp) == resp.candidates # 0 /\ IsCall(resp.parts[1])

\* The loop test and what follows it: the return of response.text, or the
\* loop body up to "await session.call_tool" or to the function response.
GeminiLoopStep(c, v, lenient) ==
    LET resp == c.response
        txt == ResponseText(resp, lenient)
        name == resp.parts[1].function_call.name
        called == [c EXCEPT !.fn_name = name, !.fn_args = resp.parts[1].function_call.args]
        left == [c EXCEPT !.last_answer = resp]
    IN IF resp.candidates # 0 /\ resp.parts = <<>>
       THEN Returned(left, InternalError(<<"list index out of range">>))
       ELSE IF ~LoopTest(resp)
       THEN IF txt.ok
            THEN Returned(left, Reply(txt.text))
            ELSE Returned([left EXCEPT !.sdk_error = SdkError("response.text", txt.error)], InternalError(txt.error))
       ELSE IF ~Registered(name)
       THEN GeminiFeedBack(called, GeminiNotFound(v, name))
       ELSE IF ~HasSession(name)
       THEN GeminiFeedBack(called, GeminiLookupError(v, name))
       ELSE [called EXCEPT !.pc = "gemini_call"]

\* The exploration follows a request for MaxRounds provider requests.
WithinExploration == chat.response.candidates # 0 /\ chat.response.parts # <<>> /\ LoopTest(chat.response) => chat.provider_requests < MaxRounds

GeminiLoop(lenient) ==
    /\ chat.pc = "gemini_loop"
    /\ WithinExploration
    /\ chat' = GeminiLoopStep(chat, variant, lenient)
    /\ UNCHANGED <<env_vars, startup_vars, adapter_vars, tools_vars, handlers>>

\* session.call_tool answers, raises or exceeds the 25 s.
GeminiToolStep(c, v, outcome) == GeminiFeedBack([c EXCEPT !.call_count = @ + 1, !.last_call = [name |-> c.fn_name, arguments |-> c.fn_args], !.tool_outcome = outcome], GeminiToolOutput(v, c.fn_name, outcome))

GeminiToolReturn(outcome) ==
    /\ chat.pc = "gemini_call"
    /\ chat' = GeminiToolStep(chat, variant, outcome)
    /\ UNCHANGED <<env_vars, startup_vars, adapter_vars, tools_vars, handlers>>

\* response = chat.send_message(Content(parts=[Part(function_response=...)]))
\* answers; fn_name, fn_args and tool_output are not read again.
GeminiFollowStep(c, ans) == [c EXCEPT !.pc = "gemini_loop", !.response = ans, !.in_flight = NoRecord, !.fn_name = None, !.fn_args = JOther(None), !.tool_output = <<>>, !.tool_outcome = NoRecord]

GeminiFollowAnswer(ans) ==
    /\ chat.pc = "gemini_follow"
    /\ chat' = GeminiFollowStep(chat, ans)
    /\ UNCHANGED <<env_vars, startup_vars, adapter_vars, tools_vars, handlers>>

GeminiFollowRaise(e) ==
    /\ chat.pc = "gemini_follow"
    /\ chat' = GeminiRaiseStep(chat, e)
    /\ UNCHANGED <<env_vars, startup_vars, adapter_vars, tools_vars, handlers>>

(* ------------------------ concurrent chat requests --------------------- *)

RequestIds == 1 .. NumRequests

\* A task that handles no request yet.
IdleHandler == [c |-> Fresh, received |-> NoRecord, inputs |-> <<>>, trace |-> <<>>]

\* What resumes a handler: nothing but the scheduler, the answer of a provider
\* request, the exception it raises, the outcome of session.call_tool, or the
\* SDK's reading of response.text.
NoInput == [type |-> "none", value |-> NoRecord]

\* The answers given to a handler that waits at c.pc.
InputsAt(c) ==
    LET raises == {[type |-> "raise", value |-> [message |-> e]] : e \in SdkErrors}
        outcomes == {[type |-> "outcome", value |-> o] : o \in ToolOutcomes}
        groq == {[type |-> "answer", value |-> GroqMessage(calls)] : calls \in ToolCallLists(1)}
        gemini == {[type |-> "answer", value |-> [candidates |-> 1, parts |-> <<p>>]] : p \in {TextPart} \cup (IF c.rounds < MaxInterleavedRounds THEN {CallPart(n) : n \in CallNames} ELSE {})}
    IN CASE c.pc = "groq_first" -> groq \cup raises
         [] c.pc = "groq_final" -> {[type |-> "answer", value |-> GroqMessage(<<>>)]} \cup raises
         [] c.pc \in {"gemini_send", "gemini_follow"} -> gemini \cup raises
         [] c.pc \in {"groq_call", "gemini_call"} -> outcomes
         [] c.pc = "gemini_loop" -> {[type |-> "sdk", value |-> [lenient |-> l]] : l \in BOOLEAN}
         [] c.pc \in {"groq_entry", "groq_loop", "gemini_entry"} -> {NoInput}
         [] OTHER -> {}

\* The handler with locals c runs from where it waits to where it waits next.
HandlerStep(c, v, in) ==
    CASE c.pc = "groq_entry" -> GroqEntryStep(c, v)
      [] c.pc = "groq_first" -> IF in.type = "raise" THEN GroqRaiseStep(c, in.value.message) ELSE GroqFirstStep(c, in.value)
      [] c.pc = "groq_loop" -> GroqLoopStep(c, v)
      [] c.pc = "groq_call" -> GroqToolStep(c, v, in.value)
      [] c.pc = "groq_final" -> IF in.type = "raise" THEN GroqRaiseStep(c, in.value.message) ELSE GroqFinalStep(c, in.value)
      [] c.pc = "gemini_entry" -> GeminiEntryStep(c)
      [] c.pc = "gemini_send" -> IF in.type = "raise" THEN GeminiRaiseStep(c, in.value.message) ELSE GeminiSendStep(c, in.value)
      [] c.pc = "gemini_loop" -> GeminiLoopStep(c, v, in.value.lenient)
      [] c.pc = "gemini_call" -> GeminiToolStep(c, v, in.value)
      [] c.pc = "gemini_follow" -> IF in.type = "raise" THEN GeminiRaiseStep(c, in.value.message) ELSE GeminiFollowStep(c, in.value)

\* What a step from locals c to locals c2 did towards the outside: the
\* session.call_tool it got answered, the provider request it sent.
Events(c, c2) == (IF c2.call_count > c.call_count THEN <<c2.last_call>> ELSE <<>>) \o (IF c2.provider_requests > c.provider_requests THEN <<c2.in_flight>> ELSE <<>>)

\* Locals kept in module-level variables: every handler works on those of the
\* first task.
LocalsOf_ModuleLevel(h, i) == h[1].c

\* The locals of a handler are those of its own call of chat_endpoint.
LocalsOf(h, i) == h[i].c

\* POST /api/chat arrives while other requests may be suspended.
HandleRequest(i, req) ==
    /\ lifespan_pc = "serving"
    /\ handlers[i].c.pc = "idle"
    /\ handlers' = [handlers EXCEPT ![i] = [c |-> EndpointStep(req), received |-> req, inputs |-> <<>>, trace |-> <<>>]]
    /\ UNCHANGED <<env_vars, startup_vars, chat, adapter_vars, tools_vars>>

\* The event loop resumes the handler of request i.
HandlerResume(i, in) ==
    /\ handlers[i].received # NoRecord
    /\ in \in InputsAt(LocalsOf(handlers, i))
    /\ handlers' = [handlers EXCEPT ![i] = [@ EXCEPT !.c = HandlerStep(LocalsOf(handlers, i), variant, in), !.inputs = Append(@, in), !.trace = @ \o Events(LocalsOf(handlers, i), HandlerStep(LocalsOf(handlers, i), variant, in))]]
    /\ UNCHANGED <<env_vars, startup_vars, chat, adapter_vars, tools_vars>>

(* ---------------------------- specifications --------------------------- *)

Variants == {"api", "backend"}

IdleChat == chat = Fresh /\ handlers = [i \in RequestIds |-> IdleHandler]

\* No schema has been given to the adapter.
NoSchema == [schema |-> JOther(None), converted |-> JOther(None), again |-> JOther(None), passes |-> 0]

IdleAdapter == adapter = NoSchema

\* No tool of the catalog has been called.
NoCall == [pc |-> "idle", deployment |-> None, tool |-> None, args |-> <<>>, request |-> NoRecord, upstream |-> NoRecord, result |-> NoRecord]

IdleTools == tool_run = NoCall

InitEnv ==
    /\ variant \in Variants
    /\ groq_client \in BOOLEAN
    /\ GOOGLE_API_KEY \in BOOLEAN
    /\ genai_installed \in BOOLEAN

\* The process at import time: empty registry, no task, nothing requested.
\* The session manager reads neither of the API keys.
InitStartup ==
    /\ variant \in Variants
    /\ groq_client = TRUE
    /\ GOOGLE_API_KEY = TRUE
    /\ genai_installed = TRUE
    /\ cfg_file \in {"absent", "malformed", "present"}
    /\ plan \in [Servers -> PlanKinds]
    /\ cfg_file # "present" => plan = [s \in Servers |-> "not_configured"]
    /\ lifespan_pc = "init"
    /\ task = [s \in Servers |-> "none"]
    /\ stack = <<>>
    /\ acquired = <<>>
    /\ released = <<>>
    /\ mcp_sessions = EmptyDict
    /\ mcp_tools_map = EmptyDict
    /\ gemini_tools_schema = <<>>
    /\ health = NoRecord
    /\ IdleChat
    /\ IdleAdapter
    /\ IdleTools

NextStartup ==
    \/ LifespanEnter
    \/ \E s \in Servers : ConnectBegin(s)
    \/ \E s \in Servers : ConnectTransport(s)
    \/ \E s \in Servers : ConnectSession(s)
    \/ \E s \in Servers : ConnectInitialize(s)
    \/ \E s \in Servers : ConnectListTools(s)
    \/ GatherReturn
    \/ GatherRaise
    \/ LifespanExit
    \/ ExitStackPop
    \/ LifespanClosed
    \/ health_check

SpecStartup == InitStartup /\ [][NextStartup]_vars

\* The exit stack after the servers of `order` connected one after another.
RECURSIVE StackAfter(_)
StackAfter(order) == IF order = <<>> THEN <<>> ELSE <<TransportOf(Head(order)), SessionOf(Head(order))>> \o StackAfter(Tail(order))

\* The process once lifespan has yielded after a startup in which the first
\* n servers were configured and registered one after another.
InitChat ==
    /\ InitEnv
    /\ cfg_file = "present"
    /\ \E n \in 0 .. NumServers : LET order == [i \in 1 .. n |-> i] IN
          /\ plan = [s \in Servers |-> IF s \in Range(order) THEN "ok" ELSE "not_configured"]
          /\ task = [s \in Servers |-> IF s \in Range(order) THEN "done" ELSE "none"]
          /\ stack = StackAfter(order)
          /\ acquired = StackAfter(order)
          /\ mcp_sessions = RegistryAfter(order)[1]
          /\ mcp_tools_map = RegistryAfter(order)[2]
          /\ gemini_tools_schema = RegistryAfter(order)[3]
    /\ lifespan_pc = "serving"
    /\ released = <<>>
    /\ health = NoRecord
    /\ IdleChat
    /\ IdleAdapter
    /\ IdleTools

NextChat ==
    \/ \E req \in Requests : chat_endpoint(req)
    \/ GroqEntry
    \/ \E ans \in GroqResponses : GroqFirstAnswer(ans)
    \/ \E e \in SdkErrors : GroqFirstRaise(e)
    \/ GroqLoop
    \/ \E outcome \in ToolOutcomes : GroqToolReturn(outcome)
    \/ \E ans \in GroqFinalResponses : GroqFinalAnswer(ans)
    \/ \E e \in SdkErrors : GroqFinalRaise(e)
    \/ GeminiEntry
    \/ \E at \in {"GenerativeModel", "start_chat"}, e \in SdkErrors : GeminiSetupRaise(at, e)
    \/ \E ans \in GeminiResponses : GeminiSendAnswer(ans)
    \/ \E e \in SdkErrors : GeminiSendRaise(e)
    \/ \E lenient \in BOOLEAN : GeminiLoop(lenient)
    \/ \E outcome \in ToolOutcomes : GeminiToolReturn(outcome)
    \/ \E ans \in GeminiResponses : GeminiFollowAnswer(ans)
    \/ \E e \in SdkErrors : GeminiFollowRaise(e)
    \/ health_check

SpecChat == InitChat /\ [][NextChat]_vars

(* ---------------------------- schema adapter --------------------------- *)

\* Deepest nesting of the schemas given to the adapter.
MaxDepth == 4

SchemaKeys == {"type", "properties", "default", "items"}

SchemaLeaves == {JStr("string"), JOther("null")}

\* The JSON values nested at most d deep: a leaf, a mapping of at most one
\* pair, a list of at most one item.
RECURSIVE SchemaValues(_)
SchemaValues(d) ==
    IF d = 0 THEN SchemaLeaves
    ELSE LET inner == SchemaValues(d - 1)
         IN SchemaLeaves \cup {JDict(<<>>), JList(<<>>)} \cup {JDict(<< <<k, v>> >>) : k \in SchemaKeys, v \in inner} \cup {JList(<<v>>) : v \in inner}

\* Mappings of two pairs.
TwoKeySchemas == {JDict(<< <<ks[1], v1>>, <<ks[2], v2>> >>) : ks \in {kk \in SchemaKeys \X SchemaKeys : kk[1] # kk[2]}, v1 \in SchemaValues(1), v2 \in SchemaValues(1)}

\* The schemas the adapter is run on: the nested values, the mappings of two
\* pairs and the inputSchema the tool servers publish.
Schemas == SchemaValues(MaxDepth) \cup TwoKeySchemas \cup {InputSchema(ToolNames[1])}

\* "parameters": convert_schema_to_gemini(tool.inputSchema)
AdaptSchema ==
    /\ adapter.passes = 0
    /\ adapter.schema \in Schemas
    /\ adapter' = [adapter EXCEPT !.converted = convert_schema_to_gemini(adapter.schema), !.passes = 1]
    /\ UNCHANGED <<env_vars, startup_vars, chat_vars, tools_vars>>

\* convert_schema_to_gemini on a schema that is already converted.
AdaptAdapted ==
    /\ adapter.passes = 1
    /\ adapter' = [adapter EXCEPT !.again = convert_schema_to_gemini(adapter.converted), !.passes = 2]
    /\ UNCHANGED <<env_vars, startup_vars, chat_vars, tools_vars>>

\* The process at import time, and a schema for the adapter.
InitAdapter ==
    /\ variant \in Variants
    /\ groq_client = TRUE
    /\ GOOGLE_API_KEY = TRUE
    /\ genai_installed = TRUE
    /\ cfg_file = "absent"
    /\ plan = [s \in Servers |-> "not_configured"]
    /\ lifespan_pc = "init"
    /\ task = [s \in Servers |-> "none"]
    /\ stack = <<>>
    /\ acquired = <<>>
    /\ released = <<>>
    /\ mcp_sessions = EmptyDict
    /\ mcp_tools_map = EmptyDict
    /\ gemini_tools_schema = <<>>
    /\ health = NoRecord
    /\ IdleChat
    /\ adapter \in {[NoSchema EXCEPT !.schema = s] : s \in Schemas}
    /\ IdleTools

NextAdapter ==
    \/ AdaptSchema
    \/ AdaptAdapted

SpecAdapter == InitAdapter /\ [][NextAdapter]_vars

(* ------------------------ the tools and the data APIs ------------------ *)

\* The keys of AVAILABLE_TOOLS in senado_camara_tools.py, in their order.
ToolCatalog == <<"buscar_senadores", "buscar_proposicoes_senado", "detalhes_proposicao_senado", "votacoes_senado", "listar_comissoes_senado", "detalhes_comissao_senado", "membros_comissao_senado", "reunioes_comissao_senado", "buscar_agenda_comissao", "detalhes_reuniao_comissao", "videos_reuniao_comissao", "agenda_senado", "materia_senado", "autorias_senador", "listar_partidos_senado", "listar_tipos_cargo_comissoes", "mesa_diretora_congresso_nacional", "mesa_diretora_senado_federal", "buscar_deputados", "detalhes_deputado", "buscar_proposicoes_camara", "detalhes_proposicao_camara", "votacoes_camara", "despesas_deputado", "eventos_camara", "listar_orgaos_camara", "detalhes_orgao_camara", "membros_orgao_camara", "partidos_camara", "blocos_camara", "frentes_parlamentares">>

\* The "name" entries of TOOLS_SCHEMA in senado_camara_tools.py, in their order.
ToolsSchemaNames == <<"buscar_senadores", "buscar_proposicoes_senado", "detalhes_proposicao_senado", "votacoes_senado", "listar_comissoes_senado", "detalhes_comissao_senado", "membros_comissao_senado", "reunioes_comissao_senado", "buscar_agenda_comissao", "detalhes_reuniao_comissao", "videos_reuniao_comissao", "agenda_senado", "materia_senado", "autorias_senador", "listar_partidos_senado", "listar_tipos_cargo_comissoes", "mesa_diretora_congresso_nacional", "mesa_diretora_senado_federal", "buscar_deputados", "detalhes_deputado", "buscar_proposicoes_camara", "detalhes_proposicao_camara", "votacoes_camara", "despesas_deputado", "eventos_camara", "listar_orgaos_camara", "detalhes_orgao_camara", "membros_orgao_camara", "partidos_camara", "blocos_camara", "frentes_parlamentares">>

\* The functions under @mcp.tool() in senado_camara_mcp_server.py, in their order.
McpServerTools == <<"buscar_senadores", "buscar_proposicoes_senado", "detalhes_proposicao_senado", "votacoes_senado", "listar_comissoes_senado", "detalhes_comissao_senado", "membros_comissao_senado", "reunioes_comissao_senado", "buscar_agenda_comissao", "detalhes_reuniao_comissao", "videos_reuniao_comissao", "agenda_senado", "materia_senado", "autorias_senador", "listar_partidos_senado", "listar_tipos_cargo_comissoes", "mesa_diretora_congresso_nacional", "mesa_diretora_senado_federal", "buscar_deputados", "detalhes_deputado", "buscar_proposicoes_camara", "detalhes_proposicao_camara", "votacoes_camara", "despesas_deputado", "eventos_camara", "listar_orgaos_camara", "detalhes_orgao_camara", "membros_orgao_camara", "partidos_camara", "blocos_camara", "frentes_parlamentares">>

\* The two deployments of the catalog: the stateless functions of
\* senado_camara_tools.py and the tools of senado_camara_mcp_server.py.
Deployments == {"tools", "server"}

Catalog(dep) == IF dep = "tools" THEN ToolCatalog ELSE McpServerTools

\* The tools that return _call_senado_api(endpoint, format_json=True).
SenadoJsonTools == {"buscar_senadores", "buscar_proposicoes_senado", "detalhes_proposicao_senado", "votacoes_senado", "buscar_agenda_comissao", "detalhes_reuniao_comissao", "videos_reuniao_comissao", "listar_partidos_senado", "listar_tipos_cargo_comissoes", "mesa_diretora_congresso_nacional", "mesa_diretora_senado_federal"}

\* The tools that return _call_senado_api(endpoint, format_json=False).
SenadoXmlTools == {"listar_comissoes_senado", "detalhes_comissao_senado"}

\* Every other tool returns _call_api(base_url, endpoint, params).
HelperOf(t) == IF t \in SenadoJsonTools \cup SenadoXmlTools THEN "_call_senado_api" ELSE "_call_api"

\* What requests.get(url, timeout=30) meets: an exception of the requests
\* library (no connection, no answer within the 30 s), or a response with a
\* status and a body that is JSON, XML or neither.
HttpBody(format) == [format |-> format, text |-> <<"body as ", format>>]

Upstream == {[kind |-> "exception", error |-> <<"Connection refused">>], [kind |-> "exception", error |-> <<"Read timed out. (read timeout=30)">>]} \cup {[kind |-> "response", status |-> 404, body |-> HttpBody("text")], [kind |-> "response", status |-> 500, body |-> HttpBody("json")]} \cup {[kind |-> "response", status |-> 200, body |-> HttpBody(f)] : f \in {"json", "xml", "text"}}

\* str(e) of the HTTPError that response.raise_for_status() raises.
HttpErrorText(status) == IF status < 500 THEN <<"404 Client Error: Not Found for url">> ELSE <<"500 Server Error: Internal Server Error for url">>

\* The dicts the helpers return.
ApiSuccess(status, data) == [success |-> TRUE, status_code |-> status, data |-> data]

ApiFailure(prefix, error) == [success |-> FALSE, error |-> error, message |-> prefix \o error]

\* response.json() of a JSON body, the XML branch's dict, response.text.
JsonData(body) == <<"json", body.text>>

XmlData(body) == <<"xml_root", body.text>>

RawData(body) == <<"text", body.text>>

\* _call_api without response.raise_for_status().
call_api_NoStatusCheck(up) ==
    IF up.kind = "exception" THEN ApiFailure(<<"Erro ao chamar API: ">>, up.error)
    ELSE IF up.body.format = "json" THEN ApiSuccess(up.status, JsonData(up.body))
    ELSE ApiSuccess(up.status, RawData(up.body))

\* _call_api(base_url, endpoint, params)
call_api(up) ==
    IF up.kind = "exception" THEN ApiFailure(<<"Erro ao chamar API: ">>, up.error)
    ELSE IF up.status >= 400 THEN ApiFailure(<<"Erro ao chamar API: ">>, HttpErrorText(up.status))
    ELSE IF up.body.format = "json" THEN ApiSuccess(up.status, JsonData(up.body))
    ELSE ApiSuccess(up.status, RawData(up.body))

\* _call_senado_api(endpoint, format_json): ".json" is appended to the
\* endpoint when format_json is set, and the JSON branch is tried then.
call_senado_api(format_json, up) ==
    IF up.kind = "exception" THEN ApiFailure(<<"Erro ao chamar API do Senado: ">>, up.error)
    ELSE IF up.status >= 400 THEN ApiFailure(<<"Erro ao chamar API do Senado: ">>, HttpErrorText(up.status))
    ELSE IF format_json /\ up.body.format = "json" THEN ApiSuccess(up.status, JsonData(up.body))
    ELSE IF up.body.format = "xml" THEN ApiSuccess(up.status, XmlData(up.body))
    ELSE ApiSuccess(up.status, RawData(up.body))

\* The parameters of the tool functions: those without a default, and those
\* with one (None, for listar_comissoes_senado 'permanente').
Signature(t) ==
    CASE t = "buscar_senadores" -> [req |-> {}, opt |-> {"uf"}]
      [] t = "buscar_proposicoes_senado" -> [req |-> {"sigla"}, opt |-> {"ano"}]
      [] t \in {"detalhes_proposicao_senado", "detalhes_comissao_senado", "membros_comissao_senado", "materia_senado"} -> [req |-> {"codigo"}, opt |-> {}]
      [] t \in {"votacoes_senado", "buscar_agenda_comissao"} -> [req |-> {"data_inicio"}, opt |-> {"data_fim"}]
      [] t = "listar_comissoes_senado" -> [req |-> {}, opt |-> {"tipo"}]
      [] t = "reunioes_comissao_senado" -> [req |-> {"codigo"}, opt |-> {"data_inicio", "data_fim"}]
      [] t \in {"detalhes_reuniao_comissao", "videos_reuniao_comissao"} -> [req |-> {"codigo_reuniao"}, opt |-> {}]
      [] t = "agenda_senado" -> [req |-> {}, opt |-> {"data"}]
      [] t = "autorias_senador" -> [req |-> {"codigo_senador"}, opt |-> {}]
      [] t = "buscar_deputados" -> [req |-> {}, opt |-> {"siglaUf", "siglaPartido"}]
      [] t = "detalhes_deputado" -> [req |-> {"id_deputado"}, opt |-> {}]
      [] t = "buscar_proposicoes_camara" -> [req |-> {}, opt |-> {"siglaTipo", "ano", "autor", "keywords"}]
      [] t = "detalhes_proposicao_camara" -> [req |-> {"id_proposicao"}, opt |-> {}]
      [] t = "votacoes_camara" -> [req |-> {}, opt |-> {"id_proposicao", "dataInicio", "dataFim"}]
      [] t = "despesas_deputado" -> [req |-> {"id_deputado", "ano"}, opt |-> {"mes"}]
      [] t = "eventos_camara" -> [req |-> {}, opt |-> {"dataInicio", "dataFim"}]
      [] t \in {"detalhes_orgao_camara", "membros_orgao_camara"} -> [req |-> {"id_orgao"}, opt |-> {}]
      [] OTHER -> [req |-> {}, opt |-> {}]

\* The texts a caller gives as arguments.
ArgValues == {"sp", "CPI"}

\* The argument assignments of a call of tool t: None is a parameter left out.
ArgsOf(t) == {a \in [Signature(t).req \cup Signature(t).opt -> ArgValues \cup {None}] : \A r \in Signature(t).req : a[r] # None}

\* The body of a tool function up to its return: the helper it calls and the
\* arguments it gives it.  The two deployments differ in videos_reuniao_comissao.
ToolCall(dep, t, a) ==
    LET senado(ep, fj) == [helper |-> "_call_senado_api", endpoint |-> ep, format_json |-> fj]
        api(base, ep, ps) == [helper |-> "_call_api", base_url |-> base, endpoint |-> ep, params |-> ps]
        SenadoUrl == "https://legis.senado.leg.br/dadosabertos"
        CamaraUrl == "https://dadosabertos.camara.leg.br/api/v2"
        order(o, by) == << <<"ordem", <<o>>>>, <<"ordenarPor", <<by>>>> >>
        opt(k, name) == IF a[name] # None THEN << <<k, <<a[name]>>>> >> ELSE <<>>
        optUpper(k, name) == IF a[name] # None THEN << <<k, <<Upper(a[name])>>>> >> ELSE <<>>
        tipo_map == [k \in {"permanente", "cpi", "temporaria", "orgaos", "orgao"} |-> IF k = "orgao" THEN "orgaos" ELSE k]
        tipo_lower == Lower(IF a["tipo"] = None THEN "permanente" ELSE a["tipo"])
    IN CASE t = "buscar_senadores" -> senado(<<"/senador/lista/atual">> \o (IF a["uf"] # None THEN <<"?uf=", Upper(a["uf"])>> ELSE <<>>), TRUE)
         [] t = "buscar_proposicoes_senado" -> senado(<<"/proposicao/sigla/", Upper(a["sigla"])>> \o (IF a["ano"] # None THEN <<"/ano/", a["ano"]>> ELSE <<>>), TRUE)
         [] t = "detalhes_proposicao_senado" -> senado(<<"/proposicao/", a["codigo"]>>, TRUE)
         [] t = "votacoes_senado" -> senado(<<"/plenario/votacao/lista/data/", a["data_inicio"]>> \o (IF a["data_fim"] # None THEN <<"/data/", a["data_fim"]>> ELSE <<>>), TRUE)
         [] t = "listar_comissoes_senado" -> senado(<<"/comissao/lista/", (IF tipo_lower \in DOMAIN tipo_map THEN tipo_map[tipo_lower] ELSE "permanente")>>, FALSE)
         [] t = "detalhes_comissao_senado" -> senado(<<"/comissao/", a["codigo"]>>, FALSE)
         [] t = "membros_comissao_senado" -> api(SenadoUrl, <<"/comissao/", a["codigo"], "/membros">>, <<>>)
         [] t = "reunioes_comissao_senado" -> api(SenadoUrl, <<"/comissao/", a["codigo"], "/reunioes">>, opt("dataInicio", "data_inicio") \o opt("dataFim", "data_fim"))
         [] t = "buscar_agenda_comissao" -> senado(<<"/comissao/agenda/", a["data_inicio"], "/", (IF a["data_fim"] = None THEN a["data_inicio"] ELSE a["data_fim"])>>, TRUE)
         [] t = "detalhes_reuniao_comissao" -> senado(<<"/comissao/reuniao/", a["codigo_reuniao"]>>, TRUE)
         [] t = "videos_reuniao_comissao" -> senado((IF dep = "tools" THEN <<"/comissao/reuniao/", a["codigo_reuniao"], "/videos">> ELSE <<"/taquigrafia/videos/reuniao/", a["codigo_reuniao"]>>), TRUE)
         [] t = "agenda_senado" -> api(SenadoUrl, <<"/agenda">>, opt("data", "data"))
         [] t = "materia_senado" -> api(SenadoUrl, <<"/materia/", a["codigo"]>>, <<>>)
         [] t = "autorias_senador" -> api(SenadoUrl, <<"/senador/", a["codigo_senador"], "/autorias">>, <<>>)
         [] t = "listar_partidos_senado" -> senado(<<"/composicao/lista/partidos">>, TRUE)
         [] t = "listar_tipos_cargo_comissoes" -> senado(<<"/composicao/lista/tiposCargo">>, TRUE)
         [] t = "mesa_diretora_congresso_nacional" -> senado(<<"/composicao/mesaCN">>, TRUE)
         [] t = "mesa_diretora_senado_federal" -> senado(<<"/composicao/mesaSF">>, TRUE)
         [] t = "buscar_deputados" -> api(CamaraUrl, <<"/deputados">>, order("ASC", "nome") \o optUpper("siglaUf", "siglaUf") \o optUpper("siglaPartido", "siglaPartido"))
         [] t = "detalhes_deputado" -> api(CamaraUrl, <<"/deputados/", a["id_deputado"]>>, <<>>)
         [] t = "buscar_proposicoes_camara" -> api(CamaraUrl, <<"/proposicoes">>, order("DESC", "id") \o optUpper("siglaTipo", "siglaTipo") \o opt("ano", "ano") \o opt("autor", "autor") \o opt("keywords", "keywords"))
         [] t = "detalhes_proposicao_camara" -> api(CamaraUrl, <<"/proposicoes/", a["id_proposicao"]>>, <<>>)
         [] t = "votacoes_camara" -> api(CamaraUrl, <<"/votacoes">>, order("DESC", "dataHoraRegistro") \o opt("idProposicao", "id_proposicao") \o opt("dataInicio", "dataInicio") \o opt("dataFim", "dataFim"))
         [] t = "despesas_deputado" -> api(CamaraUrl, <<"/deputados/", a["id_deputado"], "/despesas">>, << <<"ano", <<a["ano"]>>>> >> \o order("DESC", "dataDocumento") \o opt("mes", "mes"))
         [] t = "eventos_camara" -> api(CamaraUrl, <<"/eventos">>, order("ASC", "dataHoraInicio") \o opt("dataInicio", "dataInicio") \o opt("dataFim", "dataFim"))
         [] t = "listar_orgaos_camara" -> api(CamaraUrl, <<"/orgaos">>, order("ASC", "sigla"))
         [] t = "detalhes_orgao_camara" -> api(CamaraUrl, <<"/orgaos/", a["id_orgao"]>>, <<>>)
         [] t = "membros_orgao_camara" -> api(CamaraUrl, <<"/orgaos/", a["id_orgao"], "/membros">>, <<>>)
         [] t = "partidos_camara" -> api(CamaraUrl, <<"/partidos">>, order("ASC", "sigla"))
         [] t = "blocos_camara" -> api(CamaraUrl, <<"/blocos">>, order("ASC", "nome"))
         [] t = "frentes_parlamentares" -> api(CamaraUrl, <<"/frentes">>, order("ASC", "titulo"))

\* The GET that requests.get(url, params=params) sends: the URL text is cut
\* at its first "?", what stands before it is the path and what follows it is
\* the query string, to which the params are added.
HttpGet(url, params) ==
    LET marks == {i \in DOMAIN url : url[i] = "?uf="}
        first == CHOOSE i \in marks : \A j \in marks : i <= j
    IN IF marks = {} THEN [base |-> url[1], path |-> Tail(url), query |-> params]
       ELSE [base |-> url[1], path |-> SubSeq(url, 2, first - 1), query |-> << <<"uf", SubSeq(url, first + 1, Len(url))>> >> \o params]

\* The request of a helper call: _call_api joins base_url and endpoint;
\* _call_senado_api adds '.json' to the endpoint "if format_json and not
\* endpoint.endswith('.json')" and joins its base URL and the endpoint.
UpstreamRequest(call) ==
    IF call.helper = "_call_api" THEN HttpGet(<<call.base_url>> \o call.endpoint, call.params)
    ELSE HttpGet(<<"https://legis.senado.leg.br/dadosabertos">> \o call.endpoint \o (IF call.format_json /\ call.endpoint[Len(call.endpoint)] # ".json" THEN <<".json">> ELSE <<>>), <<>>)

\* A tool function is called and runs up to requests.get(...) in its helper.
ToolInvoke(dep, t, a) ==
    /\ tool_run.pc \in {"idle", "returned"}
    /\ tool_run' = [pc |-> "get", deployment |-> dep, tool |-> t, args |-> a, request |-> UpstreamRequest(ToolCall(dep, t, a)), upstream |-> NoRecord, result |-> NoRecord]
    /\ UNCHANGED <<env_vars, startup_vars, chat_vars, adapter_vars>>

\* The GET of _call_api answers or raises, and the tool returns.
ToolCallApi(up) ==
    /\ tool_run.pc = "get"
    /\ HelperOf(tool_run.tool) = "_call_api"
    /\ tool_run' = [tool_run EXCEPT !.pc = "returned", !.upstream = up, !.result = call_api(up)]
    /\ UNCHANGED <<env_vars, startup_vars, chat_vars, adapter_vars>>

\* The GET of _call_senado_api answers or raises, and the tool returns.
ToolCallSenadoApi(up) ==
    /\ tool_run.pc = "get"
    /\ HelperOf(tool_run.tool) = "_call_senado_api"
    /\ tool_run' = [tool_run EXCEPT !.pc = "returned", !.upstream = up, !.result = call_senado_api(ToolCall(tool_run.deployment, tool_run.tool, tool_run.args).format_json, up)]
    /\ UNCHANGED <<env_vars, startup_vars, chat_vars, adapter_vars>>

\* The tool server (or the stateless deployment) before any call.
InitTools ==
    /\ variant \in Variants
    /\ groq_client = TRUE
    /\ GOOGLE_API_KEY = TRUE
    /\ genai_installed = TRUE
    /\ cfg_file = "absent"
    /\ plan = [s \in Servers |-> "not_configured"]
    /\ lifespan_pc = "init"
    /\ task = [s \in Servers |-> "none"]
    /\ stack = <<>>
    /\ acquired = <<>>
    /\ released = <<>>
    /\ mcp_sessions = EmptyDict
    /\ mcp_tools_map = EmptyDict
    /\ gemini_tools_schema = <<>>
    /\ health = NoRecord
    /\ IdleChat
    /\ IdleAdapter
    /\ IdleTools

NextTools ==
    \/ \E dep \in Deployments : \E t \in Range(Catalog(dep)) : \E a \in ArgsOf(t) : ToolInvoke(dep, t, a)
    \/ \E up \in Upstream : ToolCallApi(up)
    \/ \E up \in Upstream : ToolCallSenadoApi(up)

SpecTools == InitTools /\ [][NextTools]_vars

(* ------------------ specification of concurrent requests --------------- *)

\* The requests of the concurrent clients.
ConcurrentRequests == {r \in Requests : r.model \in {"groq", "gemini"}}

\* The process once lifespan has yielded, with both API keys configured.
InitConcurrent == InitChat /\ groq_client /\ GOOGLE_API_KEY /\ genai_installed

NextConcurrent ==
    \/ \E i \in RequestIds, req \in ConcurrentRequests : HandleRequest(i, req)
    \/ \E i \in RequestIds : \E in \in InputsAt(LocalsOf(handlers, i)) : HandlerResume(i, in)

SpecConcurrent == InitConcurrent /\ [][NextConcurrent]_vars

(* ------------------------------- claims -------------------------------- *)

\* `piece` sequence msg occurs in text as a contiguous run of pieces.
Contains(text, msg) == \E i \in 1 .. (Len(text) + 1) : i + Len(msg) - 1 <= Len(text) /\ SubSeq(text, i, i + Len(msg) - 1) = msg

RequestDone == chat.pc = "done"

\* The tool result a provider request in flight carries.
FedBack(req) == IF req.provider = "groq" THEN req.messages[Len(req.messages)].content ELSE req.function_response.response.result

\* C1: every chat request stops feeding tool results back to the model once
\* the iteration bound of model round-trips is reached, whatever the model
\* answers.
C1_LoopWithinBound == chat.rounds <= IterationBound

\* A provider answer that is plain text.
PlainText(drv, ans) == IF drv = "groq" THEN ans.tool_calls = <<>> ELSE ans.candidates # 0 /\ ans.parts # <<>> /\ \A i \in DOMAIN ans.parts : ~IsCall(ans.parts[i])

TextOfAnswer(drv, ans) == IF drv = "groq" THEN ans.content ELSE TextOf(ans.parts)

ArgsOfCall(drv, call) == IF drv = "groq" THEN json_loads(call.arguments) ELSE [ok |-> TRUE, value |-> call.args]

\* The model answered the user message with exactly one tool call, to a
\* registered tool with decodable arguments, and the tool result with plain
\* text, and no provider request raised.
SingleCallThenText ==
    /\ RequestDone
    /\ chat.first_call # NoRecord
    /\ Registered(chat.first_call.name)
    /\ ArgsOfCall(chat.driver, chat.first_call).ok
    /\ chat.rounds = 1
    /\ chat.sdk_error = NoRecord
    /\ chat.last_answer # NoRecord
    /\ PlainText(chat.driver, chat.last_answer)

\* C2: when the model answers the user message with exactly one tool call to
\* a registered tool and the tool result with plain text, the driver has
\* called session.call_tool exactly once, with the requested name and
\* arguments, and the reply is the model's final text.
C2_OneInvocationFinalText == SingleCallThenText => (chat.call_count = 1 /\ chat.last_call = [name |-> chat.first_call.name, arguments |-> ArgsOfCall(chat.driver, chat.first_call).value] /\ chat.result = Reply(TextOfAnswer(chat.driver, chat.last_answer)))

C2_Witness == SingleCallThenText /\ chat.driver = "groq" /\ chat.call_count = 1 /\ chat.result = Reply(FinalText)

NotFoundMarkers == {" nao encontrada.", " desconhecida."}

HasNotFoundMarker(text) == \E i \in DOMAIN text : text[i] \in NotFoundMarkers

\* C3: when the model requests a tool name that is not in mcp_tools_map, the
\* tool result handed back carries a "not found" marker, and the request goes
\* on to a follow-up provider request instead of ending without one.
C3_UnknownToolAnswered ==
    /\ (chat.pc \in {"groq_final", "gemini_follow"} /\ ~Registered(chat.fn_name)) => HasNotFoundMarker(FedBack(chat.in_flight))
    /\ (RequestDone /\ chat.first_call # NoRecord /\ ~Registered(chat.first_call.name) /\ ArgsOfCall(chat.driver, chat.first_call).ok /\ chat.sdk_error = NoRecord) => (chat.rounds >= 1 /\ chat.result.kind = "reply")

TimeoutMarkers == {"Erro: Timeout ao executar ", "Erro: Timeout na ferramenta "}

ToolFailed == chat.tool_outcome # NoRecord /\ chat.tool_outcome.kind \in {"raise", "timeout"}

\* C4: when session.call_tool raises or exceeds its timeout, the request does
\* not fail: the driver is at its follow-up provider request, whose tool
\* result is the text tool_output; after an exception that text carries the
\* exception's message, after a timeout it names the timeout.
C4_ToolFailureFedBack == ToolFailed => (chat.pc \in {"groq_final", "gemini_follow"} /\ chat.result = NoRecord /\ FedBack(chat.in_flight) = chat.tool_output /\ Len(chat.tool_output) >= 1 /\ (IF chat.tool_outcome.kind = "raise" THEN Contains(chat.tool_output, chat.tool_outcome.message) ELSE chat.tool_output[1] \in TimeoutMarkers))

\* C5: a tool call whose arguments cannot be decoded as JSON does not make
\* the chat request fail.
C5_BadArgsTextual == (RequestDone /\ chat.json_error) => chat.result.kind = "reply"

GroqPcs == {"groq_entry", "groq_first", "groq_loop", "groq_call", "groq_final"}

GeminiPcs == {"gemini_entry", "gemini_send", "gemini_loop", "gemini_call", "gemini_follow"}

\* C6: for every request exactly one driver runs: the Groq driver if and only
\* if request.model is "groq", the Gemini driver otherwise; every provider
\* request of the run goes to that driver's provider.
C6_PureRouting == chat.pc # "idle" => ((chat.driver = "groq" <=> chat.request.model = "groq") /\ (chat.driver = "gemini" <=> chat.request.model # "groq") /\ (chat.pc \in GroqPcs => chat.driver = "groq") /\ (chat.pc \in GeminiPcs => chat.driver = "gemini") /\ (chat.in_flight # NoRecord => chat.in_flight.provider = chat.driver))

C6_Witness == RequestDone /\ chat.request.model = "gpt" /\ chat.driver = "gemini" /\ chat.provider_requests >= 1 /\ chat.result.kind = "reply"

KeyMissing == (chat.driver = "groq" /\ ~groq_client) \/ (chat.driver = "gemini" /\ ~GOOGLE_API_KEY)

\* C7: when the API key of the selected provider is not configured, the
\* request makes no provider request and no tool invocation and ends with a
\* 500 HTTPException.
C7_MissingKeyIs500 == (chat.pc # "idle" /\ KeyMissing) => (chat.provider_requests = 0 /\ chat.call_count = 0 /\ chat.in_flight = NoRecord /\ chat.pc \in {"groq_entry", "gemini_entry", "done"} /\ (RequestDone => chat.result.kind = "http_exception" /\ chat.result.status = 500))

C7_Witness == RequestDone /\ chat.driver = "gemini" /\ ~GOOGLE_API_KEY /\ genai_installed /\ chat.result.kind = "http_exception"

\* C8: an exception raised by the provider SDK ends the request in one of two
\* ways, fixed by the path: a 500 HTTPException carrying the error text on
\* the Groq path, a reply embedding the error text on the Gemini path.
C8_SdkErrorOutcome == (RequestDone /\ chat.sdk_error # NoRecord) => (IF chat.driver = "groq" THEN chat.result = HttpException(chat.sdk_error.message) ELSE chat.result = InternalError(chat.sdk_error.message))

FailKinds == PlanKinds \ {"not_configured", "ok"}

ServerRegistered(s) == s \in DOMAIN mcp_sessions /\ \A i \in DOMAIN ListedTools(s) : (ListedTools(s)[i].name \in DOMAIN mcp_tools_map /\ \E j \in DOMAIN gemini_tools_schema : gemini_tools_schema[j].name = ListedTools(s)[i].name)

\* C9: if one configured server fails to establish, then once startup has
\* completed the registry holds every tool of every other server that
\* establishes.
C9_OthersRegistered == (lifespan_pc = "serving" /\ Cardinality({s \in Servers : plan[s] \in FailKinds}) = 1) => \A s \in Servers : plan[s] = "ok" => ServerRegistered(s)

\* C10: no write to mcp_sessions, mcp_tools_map or gemini_tools_schema happens
\* once lifespan has yielded.
C10_NoWriteAfterStartup == [][lifespan_pc = "serving" => UNCHANGED registry]_vars


\* No server entry is read: the configuration file is absent, or present
\* without entries.
ZeroServers == cfg_file \in {"absent", "present"} /\ Configured = {}

\* C11: with zero configured servers startup completes and the health
\* response has status "ok", a tool count of 0, an empty tool list and an
\* empty server list.
C11_ZeroServersHealth == (ZeroServers /\ health # NoRecord) => (health.status = "ok" /\ health.tools_count = 0 /\ health.mcp_servers = {} /\ "tools" \in DOMAIN health /\ health.tools = {})

RECURSIVE Reverse(_)
Reverse(seq) == IF seq = <<>> THEN <<>> ELSE Append(Reverse(Tail(seq)), Head(seq))

\* C12: once shutdown is over, the contexts were exited in the reverse of the
\* order in which they were entered, each of them once.
C12_ReleasedInReverse == lifespan_pc = "closed" => released = Reverse(acquired)

\* C13: gemini_tools_schema holds each tool name at most once.
C13_UniqueNames == \A i, j \in DOMAIN gemini_tools_schema : gemini_tools_schema[i].name = gemini_tools_schema[j].name => i = j

\* C14: convert_schema_to_gemini on its own result gives that result again.
C14_Idempotent == adapter.passes = 2 => adapter.again = adapter.converted

C14_Witness == adapter.passes = 2 /\ adapter.schema = InputSchema(ToolNames[1]) /\ adapter.converted # adapter.schema /\ adapter.again = adapter.converted

\* No mapping at any depth of v has a key of skip_fields.
RECURSIVE NoSkipKeyAnywhere(_)
NoSkipKeyAnywhere(v) ==
    IF IsDict(v) THEN \A i \in DOMAIN v[2] : v[2][i][1] \notin skip_fields /\ NoSkipKeyAnywhere(v[2][i][2])
    ELSE IF IsList(v) THEN \A i \in DOMAIN v[2] : NoSkipKeyAnywhere(v[2][i])
    ELSE TRUE

\* C15 as stated: the result of convert_schema_to_gemini has none of the keys
\* default, additionalProperties, examples, nullable in any mapping at any
\* nesting depth.
C15_NoSkipKeyAtAnyDepth == adapter.passes >= 1 => NoSkipKeyAnywhere(adapter.converted)

\* No mapping of v that is a schema has a key of skip_fields: v itself, a
\* mapping stored under a key of a schema, a mapping that is a value of the
\* "properties" mapping, a mapping that is an item of a list stored under a
\* key of a schema.
RECURSIVE NoSkipKeyInSchemas(_)
NoSkipKeyInSchemas(v) ==
    IsDict(v) => \A i \in DOMAIN v[2] :
        LET k == v[2][i][1]
            x == v[2][i][2]
        IN /\ k \notin skip_fields
           /\ IF k = "properties" /\ IsDict(x) THEN \A j \in DOMAIN x[2] : NoSkipKeyInSchemas(x[2][j][2])
              ELSE IF IsDict(x) THEN NoSkipKeyInSchemas(x)
              ELSE IF IsList(x) THEN \A j \in DOMAIN x[2] : NoSkipKeyInSchemas(x[2][j])
              ELSE TRUE

\* C15 as amended: the result of convert_schema_to_gemini has none of the
\* keys default, additionalProperties, examples, nullable in any mapping that
\* is a schema; the "properties" mapping keeps its property names, and lists
\* inside lists and lists that are property values pass through unchanged.
C15_NoSkipKeyInSchemas == adapter.passes >= 1 => NoSkipKeyInSchemas(adapter.converted)

C15_Witness == adapter.passes = 1 /\ adapter.schema = InputSchema(ToolNames[1]) /\ ~NoSkipKeyAnywhere(adapter.schema) /\ NoSkipKeyAnywhere(adapter.converted)

\* Every string stored under a key "type" in any mapping at any depth of v
\* is upper case.
RECURSIVE TypeUpperAnywhere(_)
TypeUpperAnywhere(v) ==
    IF IsDict(v) THEN \A i \in DOMAIN v[2] : (v[2][i][1] = "type" /\ IsStr(v[2][i][2]) => v[2][i][2][2] = Upper(v[2][i][2][2])) /\ TypeUpperAnywhere(v[2][i][2])
    ELSE IF IsList(v) THEN \A i \in DOMAIN v[2] : TypeUpperAnywhere(v[2][i])
    ELSE TRUE

\* C16 as stated: in the result of convert_schema_to_gemini every string
\* value stored under a key named "type", in any mapping at any depth, is
\* upper-cased.
C16_TypeUpperAtAnyDepth == adapter.passes >= 1 => TypeUpperAnywhere(adapter.converted)

\* The pairs of a mapping whose key is not in skip_fields.
KeptPairs(pairs) == SelectSeq(pairs, LAMBDA pr : pr[1] \notin skip_fields)

\* b is a with the skip_fields keys of its schemas removed, the string under
\* a key "type" of a schema upper-cased, and every other key and value as in a.
RECURSIVE OnlyTypeUpper(_, _)
OnlyTypeUpper(a, b) ==
    IF ~IsDict(a) THEN b = a
    ELSE /\ IsDict(b)
         /\ Len(b[2]) = Len(KeptPairs(a[2]))
         /\ \A i \in DOMAIN b[2] :
              LET k == KeptPairs(a[2])[i][1]
                  x == KeptPairs(a[2])[i][2]
                  y == b[2][i][2]
              IN /\ b[2][i][1] = k
                 /\ IF k = "properties" /\ IsDict(x)
                    THEN IsDict(y) /\ Len(y[2]) = Len(x[2]) /\ \A j \in DOMAIN x[2] : y[2][j][1] = x[2][j][1] /\ OnlyTypeUpper(x[2][j][2], y[2][j][2])
                    ELSE IF k = "type" /\ IsStr(x) THEN y = JStr(Upper(x[2]))
                    ELSE IF IsDict(x) THEN OnlyTypeUpper(x, y)
                    ELSE IF IsList(x) THEN IsList(y) /\ Len(y[2]) = Len(x[2]) /\ \A j \in DOMAIN x[2] : IF IsDict(x[2][j]) THEN OnlyTypeUpper(x[2][j], y[2][j]) ELSE y[2][j] = x[2][j]
                    ELSE y = x

\* C16 as amended: in the result of convert_schema_to_gemini the string
\* stored under a key "type" of a mapping that is a schema is the upper-cased
\* input value, and every other string value and every kept key is unchanged;
\* a string that is itself a property value under "properties", also of a
\* property named "type", and values in lists inside lists are unchanged.
C16_OnlyTypeUpper == adapter.passes >= 1 => OnlyTypeUpper(adapter.schema, adapter.converted)

C16_Witness == adapter.passes = 1 /\ adapter.schema = JDict(<< <<"properties", JDict(<< <<"type", JDict(<< <<"type", JStr("string")>> >>)>> >>)>> >>) /\ adapter.converted = JDict(<< <<"properties", JDict(<< <<"type", JDict(<< <<"type", JStr("STRING")>> >>)>> >>)>> >>)

\* The turns of the first completion request, by position: the system turn if
\* the variant has one, the history in its order, the new user turn.
FirstTurnsInOrder(msgs) ==
    LET off == IF variant = "api" THEN 1 ELSE 0
        h == chat.request.history
    IN /\ Len(msgs) >= off + Len(h) + 1
       /\ off = 1 => msgs[1].role = "system"
       /\ \A i \in DOMAIN h : msgs[off + i] = h[i]
       /\ msgs[off + Len(h) + 1] = [role |-> "user", content |-> chat.request.message]

FirstLen == (IF variant = "api" THEN 1 ELSE 0) + Len(chat.request.history) + 1

\* C17: the first completion request of the Groq driver carries the system
\* turn if any, the history in its order and the user turn; the follow-up
\* request carries the same turns followed by the assistant tool-call turn
\* and one tool turn whose tool_call_id is the id of the tool call handled.
C17_TurnsKeepOrder ==
    /\ chat.pc = "groq_first" => (Len(chat.in_flight.messages) = FirstLen /\ FirstTurnsInOrder(chat.in_flight.messages))
    /\ chat.pc = "groq_final" =>
          LET msgs == chat.in_flight.messages
              call == chat.response.tool_calls[chat.tc_index]
          IN /\ Len(msgs) = FirstLen + 2
             /\ FirstTurnsInOrder(msgs)
             /\ msgs[FirstLen + 1].role = "assistant"
             /\ msgs[FirstLen + 1].tool_calls = chat.response.tool_calls
             /\ msgs[FirstLen + 2].role = "tool"
             /\ msgs[FirstLen + 2].tool_call_id = call.id
             /\ chat.call_count = 1 => chat.last_call.name = call.name

C17_Witness == chat.pc = "groq_final" /\ variant = "api" /\ chat.call_count = 1 /\ Len(chat.in_flight.messages) = 6 /\ chat.in_flight.messages[6].tool_call_id = <<"call_", 1>>

\* The tool turns of a message list.
ToolTurnsOf(msgs) == SelectSeq(msgs, LAMBDA m : m.role = "tool")

\* The function_call parts of a Gemini answer.
CallPartsOf(parts) == SelectSeq(parts, IsCall)

\* The function responses a Gemini request carries.
FunctionResponsesOf(req) == <<req.function_response>>

\* C18: when the conversation is sent to the provider again, every tool call
\* of the model's answer has its own tool result in it.
C18_EveryCallAnswered ==
    /\ chat.pc = "groq_final" => Len(ToolTurnsOf(chat.in_flight.messages)) = Len(chat.response.tool_calls)
    /\ chat.pc = "gemini_follow" => Len(FunctionResponsesOf(chat.in_flight)) = Len(CallPartsOf(chat.response.parts))

\* A Python str, in the model a sequence of pieces; None is not one.
IsString(x) == x \in Seq(STRING) /\ x # PyNone

\* C19: every tool result handed back to a provider is a single string.
C19_ResultIsString == chat.pc \in {"groq_final", "gemini_follow"} => IsString(FedBack(chat.in_flight))

C19_Witness == chat.pc = "groq_final" /\ chat.tool_outcome # NoRecord /\ chat.tool_outcome.kind = "result" /\ chat.tool_outcome.content # <<>> /\ chat.tool_outcome.content[1].type = "image" /\ IsString(FedBack(chat.in_flight))

\* The GET of the helper failed: no connection, no answer in time, a status
\* that raise_for_status rejects.
RequestFailed(up) == up.kind = "exception" \/ up.status >= 400

\* The body is neither JSON nor XML.
UnparseableBody(up) == up.kind = "response" /\ up.status < 400 /\ up.body.format = "text"

\* C20 as stated: after a network failure, a timeout, a non-2xx status or an
\* unparseable body the tool returns a result with success false and the
\* error message.
C20_UpstreamFailureIsError == (tool_run.pc = "returned" /\ (RequestFailed(tool_run.upstream) \/ UnparseableBody(tool_run.upstream))) => (tool_run.result.success = FALSE /\ Len(tool_run.result.error) >= 1 /\ Contains(tool_run.result.message, tool_run.result.error))

\* C20 as amended: after a network failure, a timeout or a non-2xx status
\* the tool returns a result with success false, the exception's text as
\* error and in message; a body that is neither JSON nor XML is no failure:
\* the tool returns success true with the status and the body text as data.
C20_RequestFailureIsError ==
    tool_run.pc = "returned" =>
        /\ RequestFailed(tool_run.upstream) => (tool_run.result.success = FALSE /\ tool_run.result.error = (IF tool_run.upstream.kind = "exception" THEN tool_run.upstream.error ELSE HttpErrorText(tool_run.upstream.status)) /\ Len(tool_run.result.message) > Len(tool_run.result.error) /\ Contains(tool_run.result.message, tool_run.result.error))
        /\ UnparseableBody(tool_run.upstream) => (tool_run.result.success = TRUE /\ tool_run.result.status_code = tool_run.upstream.status /\ tool_run.result.data = RawData(tool_run.upstream.body))

C20_Witness == tool_run.pc = "returned" /\ tool_run.tool = "buscar_deputados" /\ tool_run.upstream.kind = "response" /\ tool_run.upstream.status = 404 /\ tool_run.result.success = FALSE

\* C21: no step of a request handler (chat_endpoint, chat_with_groq,
\* chat_with_gemini, health_check) changes mcp_sessions, mcp_tools_map or
\* gemini_tools_schema, enters a context on the exit stack or exits one.
C21_HandlersLeaveRegistry == [][UNCHANGED <<mcp_sessions, mcp_tools_map, gemini_tools_schema, stack, acquired, released>>]_vars

C21_Witness == RequestDone /\ chat.call_count = 1 /\ health # NoRecord /\ health.mcp_servers # {} /\ DOMAIN mcp_sessions = health.mcp_servers /\ Len(stack) = 2 * Cardinality(DOMAIN mcp_sessions)

\* C22: a request that runs the Groq driver invokes at most one tool and
\* makes at most two provider requests; when the first completion asks for
\* tool calls the driver appends exactly one tool turn, makes exactly one
\* follow-up completion request and replies with the content of its answer,
\* whatever tool calls that answer holds.
C22_OneToolRound ==
    chat.driver = "groq" =>
        /\ chat.call_count <= 1 /\ chat.rounds <= 1 /\ chat.provider_requests <= 2
        /\ chat.pc = "groq_final" => (chat.rounds = 1 /\ chat.provider_requests = 2 /\ Len(ToolTurnsOf(chat.in_flight.messages)) = 1)
        /\ (RequestDone /\ chat.first_call # NoRecord /\ chat.sdk_error = NoRecord) => (chat.rounds = 1 /\ chat.provider_requests = 2 /\ chat.result = Reply(chat.last_answer.content))

\* C23: each pass of the Gemini loop handles one tool call, the one of the
\* current response: the function response sent is named after it and carries
\* the one tool result of the pass; the provider requests made are the tool
\* results fed back plus one; and the reply is never read from a response
\* that holds a tool-call part.
C23_OneCallPerPass ==
    chat.driver = "gemini" =>
        /\ chat.call_count <= chat.rounds
        /\ chat.pc = "gemini_follow" => (chat.provider_requests = chat.rounds + 1 /\ Len(CallPartsOf(chat.response.parts)) >= 1 /\ chat.in_flight.function_response.name = CallPartsOf(chat.response.parts)[1].function_call.name /\ chat.in_flight.function_response.response.result = chat.tool_output)
        /\ (RequestDone /\ chat.last_answer # NoRecord /\ chat.sdk_error = NoRecord) => (chat.provider_requests = chat.rounds + 1 /\ CallPartsOf(chat.last_answer.parts) = <<>>)

\* The first of the interpretations JSON, XML, raw text that parses the body.
FirstInterpretation(body) == IF body.format = "json" THEN JsonData(body) ELSE IF body.format = "xml" THEN XmlData(body) ELSE RawData(body)

\* C24: for every 2xx response both helpers return success true with the
\* body read as JSON if it is JSON, else as XML if it is XML, else as raw
\* text.
C24_JsonThenXmlThenText == (tool_run.pc = "returned" /\ tool_run.upstream.kind = "response" /\ tool_run.upstream.status < 300) => (tool_run.result.success = TRUE /\ tool_run.result.data = FirstInterpretation(tool_run.upstream.body))

\* C25: in every state during and after startup every tool name of
\* mcp_tools_map maps to a server name that is a key of mcp_sessions; the
\* tools_count of a health response is the number of tool names registered
\* when it is made, and the number of tool names the response lists.
C25_RegisteredToolsHaveSessions ==
    /\ \A t \in DOMAIN mcp_tools_map : mcp_tools_map[t] \in DOMAIN mcp_sessions
    /\ HealthResponse.tools_count = Cardinality(DOMAIN mcp_tools_map)
    /\ (health # NoRecord /\ "tools" \in DOMAIN health) => health.tools_count = Cardinality(health.tools)

C25_Witness == variant = "backend" /\ health # NoRecord /\ health.tools_count = 4 /\ Cardinality(health.tools) = 4 /\ Len(gemini_tools_schema) = 6 /\ \E s \in DOMAIN mcp_sessions : Transport(s) = "http" /\ mcp_tools_map[ToolNames[s]] = s

\* C26: a server name is a key of mcp_sessions only once its handshake and
\* its first tool listing have succeeded; a server whose tool listing failed
\* or timed out is not a key, whatever its transport.
C26_RegisteredOnlyAfterListing == \A s \in Servers : (s \in DOMAIN mcp_sessions => task[s] = "done") /\ (plan[s] \in {"list_error", "list_timeout"} => s \notin DOMAIN mcp_sessions)

\* The servers in the order in which lifespan reads them from the
\* configuration: the aliases of "mcpServers", then those of "mcpServersHTTP".
ConfigOrder == SelectSeq([i \in 1 .. NumServers |-> i], LAMBDA s : Transport(s) = "stdio") \o SelectSeq([i \in 1 .. NumServers |-> i], LAMBDA s : Transport(s) = "http")

AllTasksEnded == lifespan_pc # "init" /\ \A s \in Configured : task[s] \in {"done", "failed", "raised"}

\* C27: once every connection task has ended, the server each tool name is
\* routed to is fixed by the configuration and the servers' answers: it is
\* the one that registering the answering servers in configuration order
\* gives, whatever the order in which the tasks completed.
C27_RoutingIgnoresOrder == AllTasksEnded => mcp_tools_map = RegistryAfter(SelectSeq(ConfigOrder, LAMBDA s : plan[s] = "ok"))[2]

\* C29: the two deployments of the catalog expose the same 31 tool names,
\* in AVAILABLE_TOOLS, in TOOLS_SCHEMA and as tools of the MCP server, and
\* for every tool and every argument assignment the function of one
\* deployment sends the upstream request that the function of the other
\* sends: same base URL, same path, same query parameters.
C29_DeploymentsEquivalent ==
    /\ Len(ToolCatalog) = 31 /\ ToolsSchemaNames = ToolCatalog /\ McpServerTools = ToolCatalog
    /\ tool_run.pc # "idle" => tool_run.request = UpstreamRequest(ToolCall((IF tool_run.deployment = "tools" THEN "server" ELSE "tools"), tool_run.tool, tool_run.args))

\* C30: when a tool calls _call_senado_api with format_json true, the path
\* of the GET is the path of the endpoint followed by ".json" and its query
\* parameters are those of the endpoint; buscar_senadores(uf) requests the
\* path /senador/lista/atual.json with the query parameter uf = uf.upper().
C30_JsonSuffixOnPath ==
    (tool_run.pc # "idle" /\ tool_run.tool \in SenadoJsonTools) =>
        LET call == ToolCall(tool_run.deployment, tool_run.tool, tool_run.args)
            plain == HttpGet(<<tool_run.request.base>> \o call.endpoint, <<>>)
        IN /\ call.format_json
           /\ tool_run.request.path = plain.path \o <<".json">>
           /\ tool_run.request.query = plain.query
           /\ (tool_run.tool = "buscar_senadores" /\ tool_run.args["uf"] # None) => (tool_run.request.path = <<"/senador/lista/atual", ".json">> /\ tool_run.request.query = << <<"uf", <<Upper(tool_run.args["uf"])>>>> >>)

\* A request handled alone: chat_endpoint is entered with req and the handler
\* is given the answers of `ins` one after another.
RECURSIVE RunAlone(_, _)
RunAlone(req, ins) ==
    IF ins = <<>> THEN [c |-> EndpointStep(req), trace |-> <<>>]
    ELSE LET before == RunAlone(req, SubSeq(ins, 1, Len(ins) - 1))
             after == HandlerStep(before.c, variant, ins[Len(ins)])
         IN [c |-> after, trace |-> before.trace \o Events(before.c, after)]

==========================================================================
